---- MODULE Spec2Model ----
(***************************************************************************)
(* State-machine model of rs_salobj: the Test CSC (command dispatcher,     *)
(* lifecycle handlers, ack drain task), the RemoteCommand issuer, the      *)
(* ReadTopic consumer and the WriteTopic producer.                         *)
(*                                                                         *)
(* Each component has its own specification over the shared variables:     *)
(*   Spec      - the Test CSC (salobj/src/csc/test_csc/csc.rs)             *)
(*   SpecRun   - RemoteCommand::run / run_typed                            *)
(*   SpecRead  - ReadTopic (pop_front, pop_back, flush, get)               *)
(*   SpecWrite - WriteTopic (set, write, set_write)                        *)
(*   SpecState - State transitions and compute_state_transitions           *)
(*   SpecNew   - ReadTopic::new                                            *)
(*   SpecBeat  - the Test CSC with its heartbeat and telemetry tasks       *)
(*   SpecBeatLive - the Test CSC with its heartbeat task, with fairness    *)
(*   SpecLive  - the Test CSC with its wait tasks, with fairness           *)
(***************************************************************************)
EXTENDS Integers, Sequences, FiniteSets, TLC

VARIABLES
    \* ---- Test CSC -------------------------------------------------------
    summary_state,      \* TestCSC.summary_state
    csc_pc,             \* "new" | "started" | "start_failed" | "exited" (main returned)
    run_pc,             \* position of TestCSC::run: "recv" | "write" | "send_ack" | "exit_sleep"
                        \*   | "ended_ok" | "ended_err"
    command_chan,       \* mpsc channel command_sender -> command_receiver
    cur_cmd,            \* the command taken by the run loop (NoCmd when none)
    pending_ack,        \* the CommandAck a handler returned, not yet sent
    cur_state,          \* the state on entry to the handler awaiting its event write ("none" when none)
    ack_writing,        \* the CommandAck the ack task took and is writing (NoAckValue when none)
    dispatch_log,       \* history: one entry per handler call of the run loop
    ack_chan,           \* mpsc channel ack_sender -> ack_receiver
    ack_log,            \* every CommandAck ever sent on ack_chan, in order
    ackcmd_topic,       \* records published on the ackcmd topic
    summaryState_topic, \* values published on logevent_summaryState
    wait_tasks,         \* spawned wait_and_ack tasks still sleeping
    received,           \* every command handed to the command channel
    remote_seq,         \* next private_seqNum of each remote's command writer
    n_faults,           \* transport failures injected so far
    \* ---- ReadTopic -----------------------------------------------------
    sal_index,          \* ReadTopic.sal_index (Option<i32>)
    data_queue,         \* ReadTopic.data_queue
    current_data,       \* ReadTopic.current_data
    stream,             \* messages the consumer has not yet handed to recv()
    rd_pc,              \* "idle" | "pool" (in recv()) | "decode" (in decode) | "pop" (pool returned)
    rd_op,              \* the method that called pool
    rd_log,             \* history: the values the reader's methods returned
    n_published,        \* messages published to the reader's topic so far
    rd_call,            \* history: the pop_front / pop_back call in progress
    rd_elapsed,         \* the caller's timeout passed during the call in progress
    rd_msg,             \* the message recv() returned, being decoded (NoValue when none)
    \* ---- RemoteCommand -------------------------------------------------
    rc_pc,              \* position of run: "idle" | "write" | "wait_ack" | "done" | "dropped"
    rc_variant,         \* "run" | "run_typed"
    rc_wait_done,       \* the wait_done argument
    rc_seq,             \* seq_num returned by the command write
    rc_result,          \* the AckCmdResult returned
    rc_frame,           \* history: the ack frame run returned on
    rc_read,            \* history: the ack frames pop_back handed to run
    rc_elapsed,         \* `timeout` has passed in a pop_back that saw no frame
    rc_call,            \* history: the arguments of Remote::run_command
    \* ---- WriteTopic ----------------------------------------------------
    wr_producer,        \* WriteTopic.producer.is_some()
    wr_data,            \* WriteTopic.data
    wr_data_changed,    \* WriteTopic.data_changed
    wr_published,       \* records handed to the producer, in order
    wr_ret,             \* history: what write returned, per call
    wr_pc,              \* "idle" | "write" | "set_write" (the call awaiting the encoder) | "panicked"
    \* ---- State, compute_state_transitions --------------------------------
    st_state,           \* a State value the pure transition functions act on
    st_log,             \* history: [fn, from, ok, to] per call of a State function
    ct_call,            \* the arguments compute_state_transitions was called with
    ct_result,          \* what it returned
    \* ---- ReadTopic::new ------------------------------------------------
    new_log,            \* history: [sal_info, max_history, result] per construction
    \* ---- Test CSC background tasks ------------------------------------
    heartbeat_task,     \* the task of TestCSC.heartbeat_task: "none" | "running" | "ended"
    heartbeat_log,      \* history: one entry per heartbeat write of the task
    telemetry_loop_task,\* the task TestCSC.telemetry_loop_task holds: "none" | "running" | "aborted"
    telemetry_tasks,    \* telemetry loop tasks spawned and not aborted
    telemetry_pos,      \* the loops between the two writes of an iteration: [held, orphans]
    telemetry_log       \* history: one entry per write of a telemetry loop

csc_vars == <<summary_state, csc_pc, run_pc, command_chan, cur_cmd, pending_ack,
              dispatch_log, ack_chan, ack_log, ackcmd_topic, summaryState_topic,
              wait_tasks, received, remote_seq, n_faults, cur_state, ack_writing>>

rd_vars == <<sal_index, data_queue, current_data, stream, rd_pc, rd_op, rd_log,
             n_published, rd_call, rd_elapsed, rd_msg>>

rc_vars == <<rc_pc, rc_variant, rc_wait_done, rc_seq, rc_result, rc_frame, rc_read,
             rc_elapsed, rc_call>>

wr_vars == <<wr_producer, wr_data, wr_data_changed, wr_published, wr_ret, wr_pc>>

st_vars == <<st_state, st_log, ct_call, ct_result>>

nw_vars == <<new_log>>

bg_vars == <<heartbeat_task, heartbeat_log, telemetry_loop_task, telemetry_tasks,
             telemetry_pos, telemetry_log>>

vars == <<csc_vars, rd_vars, rc_vars, wr_vars, st_vars, nw_vars, bg_vars>>

(***************************************************************************)
(* Bounds of the model.                                                    *)
(***************************************************************************)
MaxCmds == 3
MaxFaults == 1

(***************************************************************************)
(* Program constants.                                                      *)
(***************************************************************************)
CommandChanCap == 32
AckChanCap == 100

(***************************************************************************)
(* sal_enums.rs                                                            *)
(***************************************************************************)
State == {"Invalid", "Disabled", "Enabled", "Fault", "Offline", "Standby"}

\* State::to::<i32>() followed by unwrap_or(0), as with_summary_state does.
with_summary_state(s) ==
    CASE s = "Disabled" -> 1
      [] s = "Enabled"  -> 2
      [] s = "Fault"    -> 3
      [] s = "Offline"  -> 4
      [] s = "Standby"  -> 5
      [] OTHER          -> 0

SalRetCode == {"CmdAck", "CmdInprogress", "CmdStalled", "CmdComplete", "CmdNoperm",
               "CmdNoack", "CmdFailed", "CmdAborted", "CmdTimeout"}

\* `SalRetCode as i32`
get_ack(code) ==
    CASE code = "CmdAck"        -> 300
      [] code = "CmdInprogress" -> 301
      [] code = "CmdStalled"    -> 302
      [] code = "CmdComplete"   -> 303
      [] code = "CmdNoperm"     -> 0 - 300
      [] code = "CmdNoack"      -> 0 - 301
      [] code = "CmdFailed"     -> 0 - 302
      [] code = "CmdAborted"    -> 0 - 303
      [] code = "CmdTimeout"    -> 0 - 304

is_ack_final(code) ==
    code \in {"CmdAborted", "CmdComplete", "CmdFailed", "CmdNoack", "CmdNoperm",
              "CmdStalled", "CmdTimeout"}

is_ack_good(code) == code \in {"CmdAck", "CmdInprogress", "CmdComplete"}

(***************************************************************************)
(* utils/command_ack.rs                                                    *)
(* A CommandAck; cmd_id is a history field naming the command whose        *)
(* handler built the ack (it is not part of the program's data).           *)
(***************************************************************************)
NoAckValue == [ack |-> "none"]

make_in_progress(cmd, timeout, result) ==
    [ack |-> "CmdInprogress", error |-> 0, result |-> result,
     identity |-> cmd.private_identity, origin |-> cmd.private_origin,
     cmdtype |-> 0, timeout |-> timeout, seq_num |-> cmd.private_seqNum,
     cmd_id |-> cmd.id]

\* Mutant of make_complete: seq_num left at its Default (0).
make_complete_default_seq(cmd) ==
    [ack |-> "CmdComplete", error |-> 0, result |-> "",
     identity |-> cmd.private_identity, origin |-> cmd.private_origin,
     cmdtype |-> 0, timeout |-> 0, seq_num |-> 0,
     cmd_id |-> cmd.id]

make_complete(cmd) ==
    [ack |-> "CmdComplete", error |-> 0, result |-> "",
     identity |-> cmd.private_identity, origin |-> cmd.private_origin,
     cmdtype |-> 0, timeout |-> 0, seq_num |-> cmd.private_seqNum,
     cmd_id |-> cmd.id]

make_failed(cmd, error, result) ==
    [ack |-> "CmdFailed", error |-> error, result |-> result,
     identity |-> cmd.private_identity, origin |-> cmd.private_origin,
     cmdtype |-> 0, timeout |-> 0, seq_num |-> cmd.private_seqNum,
     cmd_id |-> cmd.id]

\* CommandAck::to_ackcmd: the AckCmd payload (the envelope is left default).
to_ackcmd(command_ack) ==
    [ack |-> get_ack(command_ack.ack), error |-> command_ack.error,
     result |-> command_ack.result, identity |-> command_ack.identity,
     origin |-> command_ack.origin, cmdtype |-> command_ack.cmdtype,
     timeout |-> command_ack.timeout,
     private_seqNum |-> 0, private_identity |-> "", private_origin |-> 0,
     salIndex |-> 0, cmd_id |-> command_ack.cmd_id]

(***************************************************************************)
(* error/errors.rs: error.to_string() and {error}, the Display of          *)
(* SalObjError, put the name of the error kind before the message.         *)
(***************************************************************************)
SalObjError_to_string(err_msg) == "NoInterfaceFileError::" \o err_msg

(***************************************************************************)
(* The environment of the CSC: two remotes issuing commands.               *)
(***************************************************************************)
Remotes == {"alice", "bob"}
RemoteOrigin(r) == IF r = "alice" THEN 101 ELSE 202
RemoteIdentity(r) == IF r = "alice" THEN "alice@summit" ELSE "bob@base"
InitialSeqNum == 7

\* The domain of the CSC itself (origin and identity of its writers).
CscOrigin == 900
CscIdentity == "csc@summit"
CscIndex == 123

LifecycleCommands == {"start", "standby", "enable", "disable", "exitControl"}
DomainCommands == {"setScalars", "setArrays", "wait"}
\* enterControl is a command of the component for which the run loop
\* registers no handler.
CommandNames == LifecycleCommands \cup DomainCommands \cup {"fault", "enterControl"}

\* wait.duration, in tenths of a second.
Durations == {7, 20}

NoCmd == [id |-> 0]

\* alice drives the whole interface; bob is a second client that only
\* issues the commands wait and setScalars.
IssuedBy(r) == IF r = "alice" THEN CommandNames ELSE {"wait", "setScalars"}

\* The wait durations a remote asks for, and the commands it sends with a
\* payload that does not parse.
DurationsOf(r) == IF r = "alice" THEN Durations ELSE {7}
UnparsableBy(r) == IF r = "alice" THEN {"setScalars", "fault"} ELSE {}

\* The command records the readers can hand over: `parses` tells whether
\* from_value::<T>(&data.data) succeeds in the handler.
CommandData(id, r, seq) ==
    { [id |-> id, name |-> "command_" \o n, private_origin |-> RemoteOrigin(r),
       private_identity |-> RemoteIdentity(r), private_seqNum |-> seq,
       duration |-> 0, parses |-> TRUE] : n \in IssuedBy(r) \ {"wait"} }
    \cup
    { [id |-> id, name |-> "command_wait", private_origin |-> RemoteOrigin(r),
       private_identity |-> RemoteIdentity(r), private_seqNum |-> seq,
       duration |-> d, parses |-> TRUE] : d \in DurationsOf(r) }
    \cup
    { [id |-> id, name |-> "command_" \o n, private_origin |-> RemoteOrigin(r),
       private_identity |-> RemoteIdentity(r), private_seqNum |-> seq,
       duration |-> 0, parses |-> FALSE] : n \in UnparsableBy(r) }

(***************************************************************************)
(* TestCSC handlers.  Each returns                                         *)
(*   [state   : the summary state it leaves,                               *)
(*    events  : the summaryState values it published,                      *)
(*    ok      : FALSE when it returned Err (the `?` in run ends the loop), *)
(*    ack     : the CommandAck of an Ok return,                            *)
(*    spawned : the wait_and_ack tasks it spawned]                         *)
(* `wr_ok` tells whether the event write of this call succeeds.            *)
(***************************************************************************)
Handled(state, events, ack) ==
    [state |-> state, events |-> events, ok |-> TRUE, ack |-> ack, spawned |-> {}]

HandlerErr(state) ==
    [state |-> state, events |-> <<>>, ok |-> FALSE, ack |-> NoAckValue, spawned |-> {}]

\* update_summary_state: the events written for `state`; none when the
\* write fails (the method then returns Err).
update_summary_state(state, wr_ok) ==
    IF wr_ok THEN <<with_summary_state(state)>> ELSE <<>>

\* Mutant of Transition: the Complete ack is returned without waiting for
\* the event write.
Transition_no_publish(cmd, new_state, wr_ok) ==
    Handled(new_state, <<>>, make_complete(cmd))

\* set_summary_state(new_state); update_summary_state().await?; make_complete
Transition(cmd, new_state, wr_ok) ==
    IF wr_ok
    THEN Handled(new_state, update_summary_state(new_state, wr_ok), make_complete(cmd))
    ELSE HandlerErr(new_state)

do_exit_control(current_state, cmd, wr_ok) ==
    IF current_state # "Standby"
    THEN Handled(current_state, <<>>,
                 make_failed(cmd, 1, "Invalid state transition " \o current_state
                                        \o " -> Offline."))
    ELSE Transition(cmd, "Offline", wr_ok)

do_start(current_state, cmd, wr_ok) ==
    IF current_state # "Standby"
    THEN Handled(current_state, <<>>,
                 make_failed(cmd, 1, "Invalid state transition " \o current_state
                                        \o " -> Disable."))
    ELSE Transition(cmd, "Disabled", wr_ok)

\* Mutant of do_standby: Enabled added to the states standby is taken from.
do_standby_from_enabled(current_state, cmd, wr_ok) ==
    IF current_state \notin {"Fault", "Disabled", "Enabled"}
    THEN Handled(current_state, <<>>,
                 make_failed(cmd, 1, "Invalid state transition " \o current_state
                                        \o " -> Standby."))
    ELSE Transition(cmd, "Standby", wr_ok)

do_standby(current_state, cmd, wr_ok) ==
    IF current_state \notin {"Fault", "Disabled"}
    THEN Handled(current_state, <<>>,
                 make_failed(cmd, 1, "Invalid state transition " \o current_state
                                        \o " -> Standby."))
    ELSE Transition(cmd, "Standby", wr_ok)

\* Mutant of do_enable: the state is set and acknowledged, no event written.
do_enable_no_event(current_state, cmd, wr_ok) ==
    IF current_state # "Disabled"
    THEN Handled(current_state, <<>>,
                 make_failed(cmd, 1, "Invalid state transition " \o current_state
                                        \o " -> Enabled."))
    ELSE Handled("Enabled", <<>>, make_complete(cmd))

do_enable(current_state, cmd, wr_ok) ==
    IF current_state # "Disabled"
    THEN Handled(current_state, <<>>,
                 make_failed(cmd, 1, "Invalid state transition " \o current_state
                                        \o " -> Enabled."))
    ELSE Transition(cmd, "Enabled", wr_ok)

do_disable(current_state, cmd, wr_ok) ==
    IF current_state # "Enabled"
    THEN Handled(current_state, <<>>,
                 make_failed(cmd, 1, "Invalid state transition " \o current_state
                                        \o " -> Disable."))
    ELSE Transition(cmd, "Disabled", wr_ok)

\* write_event("logevent_scalars") failing yields a Failed ack, not an Err.
do_set_scalars(current_state, cmd, wr_ok) ==
    IF ~cmd.parses THEN HandlerErr(current_state)
    ELSE IF current_state # "Enabled"
    THEN Handled(current_state, <<>>,
                 make_failed(cmd, 1, "Command setScalars not allowed in "
                                        \o current_state \o "."))
    ELSE IF wr_ok THEN Handled(current_state, <<>>, make_complete(cmd))
    ELSE Handled(current_state, <<>>,
                 make_failed(cmd, 1, "Failed to parse event data: "
                                        \o SalObjError_to_string("write error") \o "."))

do_set_arrays(current_state, cmd, wr_ok) ==
    IF ~cmd.parses THEN HandlerErr(current_state)
    ELSE IF current_state # "Enabled"
    THEN Handled(current_state, <<>>,
                 make_failed(cmd, 1, "Command setArrays not allowed in "
                                        \o current_state \o "."))
    ELSE IF wr_ok THEN Handled(current_state, <<>>, make_complete(cmd))
    ELSE Handled(current_state, <<>>,
                 make_failed(cmd, 1, "Failed to parse event data"))

\* Mutant of do_fault: fault is refused outside Enabled.
do_fault_enabled_only(current_state, cmd, wr_ok) ==
    IF ~cmd.parses THEN HandlerErr(current_state)
    ELSE IF current_state # "Enabled"
    THEN Handled(current_state, <<>>,
                 make_failed(cmd, 1, "Invalid state transition " \o current_state
                                        \o " -> Fault."))
    ELSE Transition(cmd, "Fault", wr_ok)

do_fault(current_state, cmd, wr_ok) ==
    IF ~cmd.parses THEN HandlerErr(current_state)
    ELSE Transition(cmd, "Fault", wr_ok)

\* Duration::from_secs((wait.duration * 2.0) as u64), duration in tenths.
WaitTimeout(duration) == (duration * 2) \div 10

\* Mutant of do_wait: the check of the current state is missing.
do_wait_any_state(current_state, cmd, wr_ok) ==
    IF ~cmd.parses THEN HandlerErr(current_state)
    ELSE [state |-> current_state, events |-> <<>>, ok |-> TRUE,
          ack |-> make_in_progress(cmd, WaitTimeout(cmd.duration),
                                   "Wait command in progress."),
          spawned |-> {cmd}]

do_wait(current_state, cmd, wr_ok) ==
    IF ~cmd.parses THEN HandlerErr(current_state)
    ELSE IF current_state # "Enabled"
    THEN Handled(current_state, <<>>,
                 make_failed(cmd, 1, "Command wait not allowed in "
                                        \o current_state \o "."))
    ELSE [state |-> current_state, events |-> <<>>, ok |-> TRUE,
          ack |-> make_in_progress(cmd, WaitTimeout(cmd.duration),
                                   "Wait command in progress."),
          spawned |-> {cmd}]

\* Mutant of not_implemented: the branch returns Err.
not_implemented_err(current_state, cmd) ==
    HandlerErr(current_state)

\* The else branch of handle_command!: no handler for data.name.
not_implemented(current_state, cmd) ==
    Handled(current_state, <<>>,
            make_failed(cmd, 1, "Command " \o cmd.name \o " not implemented."))

\* The if / else-if chain the handle_command! macro expands to in run().
handle_command(current_state, cmd, wr_ok) ==
    CASE cmd.name = "command_exitControl" -> do_exit_control(current_state, cmd, wr_ok)
      [] cmd.name = "command_start"       -> do_start(current_state, cmd, wr_ok)
      [] cmd.name = "command_standby"     -> do_standby(current_state, cmd, wr_ok)
      [] cmd.name = "command_enable"      -> do_enable(current_state, cmd, wr_ok)
      [] cmd.name = "command_disable"     -> do_disable(current_state, cmd, wr_ok)
      [] cmd.name = "command_setScalars"  -> do_set_scalars(current_state, cmd, wr_ok)
      [] cmd.name = "command_setArrays"   -> do_set_arrays(current_state, cmd, wr_ok)
      [] cmd.name = "command_fault"       -> do_fault(current_state, cmd, wr_ok)
      [] cmd.name = "command_wait"        -> do_wait(current_state, cmd, wr_ok)
      [] OTHER                            -> not_implemented(current_state, cmd)

\* Whether the handler of `cmd` in `current_state` writes an event, so that
\* a transport failure can hit it.
WritesEvent(current_state, cmd) ==
    \/ cmd.name = "command_exitControl" /\ current_state = "Standby"
    \/ cmd.name = "command_start" /\ current_state = "Standby"
    \/ cmd.name = "command_standby" /\ current_state \in {"Fault", "Disabled"}
    \/ cmd.name = "command_enable" /\ current_state = "Disabled"
    \/ cmd.name = "command_disable" /\ current_state = "Enabled"
    \/ cmd.name = "command_fault" /\ cmd.parses
    \/ cmd.name \in {"command_setScalars", "command_setArrays"}
       /\ cmd.parses /\ current_state = "Enabled"

(***************************************************************************)
(* Option values, and the state of a component right after construction.   *)
(***************************************************************************)
Some(i) == [some |-> TRUE, v |-> i]
None == [some |-> FALSE, v |-> 0]

NoResult == [ok |-> FALSE, ack |-> NoAckValue]

\* Option<Value>::None
NoValue == [kind |-> "None"]

\* A call of pop_front / pop_back: the messages its flush removed from the
\* queue, what pool returned to it ("none" while it has not) and the
\* message pool discarded last for it.
Call(do_flush, queue) ==
    [flushed |-> IF do_flush THEN queue ELSE <<>>, pool |-> "none",
     discarded |-> NoValue]

NoCall == Call(FALSE, <<>>)

\* An entry of the reader's history: the method, the value it returned, the
\* messages its flush removed and what pool returned to it.
Returned(op, value, call) ==
    [op |-> op, value |-> value, flushed |-> call.flushed, pool |-> call.pool]

\* ReadTopic::new for a SalInfo whose get_optional_index() is `index`.
ReaderIdle(index) ==
    /\ sal_index = index
    /\ data_queue = <<>>
    /\ current_data = NoValue
    /\ stream = <<>>
    /\ rd_pc = "idle"
    /\ rd_op = "none"
    /\ rd_log = <<>>
    /\ n_published = 0
    /\ rd_call = NoCall
    /\ rd_elapsed = FALSE
    /\ rd_msg = NoValue

\* Remote::run_command not called.
NoRunCall == [command_name |-> <<>>, readonly |-> FALSE, typed |-> FALSE]

\* The value of rc_seq while no command write has returned.
NoSeqNum == 0 - 1

\* RemoteCommand before run is called.
RunIdle ==
    /\ rc_pc = "idle"
    /\ rc_variant = "run"
    /\ rc_wait_done = FALSE
    /\ rc_seq = NoSeqNum
    /\ rc_result = NoResult
    /\ rc_frame = NoValue
    /\ rc_read = <<>>
    /\ rc_elapsed = FALSE
    /\ rc_call = NoRunCall

\* No State function applied, compute_state_transitions not called.
StateIdle ==
    /\ st_state = "Standby"
    /\ st_log = <<>>
    /\ ct_call = <<>>
    /\ ct_result = [kind |-> "NotCalled"]

\* No ReadTopic constructed.
NewIdle == new_log = <<>>

\* WriteTopic::new
WriterIdle ==
    /\ wr_producer = FALSE
    /\ wr_data = NoValue
    /\ wr_data_changed = FALSE
    /\ wr_published = <<>>
    /\ wr_ret = <<>>
    /\ wr_pc = "idle"

(***************************************************************************)
(* Test CSC: initial state (TestCSC::new) and actions.                     *)
(***************************************************************************)
CscInit ==
    /\ summary_state = "Standby"
    /\ csc_pc = "new"
    /\ run_pc = "recv"
    /\ command_chan = <<>>
    /\ cur_cmd = NoCmd
    /\ pending_ack = NoAckValue
    /\ dispatch_log = <<>>
    /\ ack_chan = <<>>
    /\ ack_log = <<>>
    /\ ackcmd_topic = <<>>
    /\ summaryState_topic = <<>>
    /\ wait_tasks = {}
    /\ received = <<>>
    /\ remote_seq = [r \in Remotes |-> InitialSeqNum]
    /\ n_faults = 0
    /\ cur_state = "none"
    /\ ack_writing = NoAckValue
    /\ heartbeat_task = "none"
    /\ heartbeat_log = <<>>
    /\ telemetry_loop_task = "none"
    /\ telemetry_tasks = 0
    /\ telemetry_pos = [held |-> FALSE, orphans |-> 0]
    /\ telemetry_log = <<>>

Init ==
    /\ CscInit
    /\ ReaderIdle(Some(CscIndex))
    /\ RunIdle
    /\ WriterIdle
    /\ StateIdle
    /\ NewIdle

\* TestCSC::start: publish the initial state, then spawn heartbeat, ack
\* drain and command reader tasks.  A failed write returns before any task
\* is spawned.
CscStart ==
    /\ csc_pc = "new"
    /\ \E wr_ok \in BOOLEAN :
         /\ ~wr_ok => n_faults < MaxFaults
         /\ n_faults' = IF wr_ok THEN n_faults ELSE n_faults + 1
         /\ csc_pc' = IF wr_ok THEN "started" ELSE "start_failed"
         /\ summaryState_topic' =
              summaryState_topic \o update_summary_state(summary_state, wr_ok)
         /\ heartbeat_task' = IF wr_ok THEN "running" ELSE heartbeat_task
    /\ UNCHANGED <<summary_state, run_pc, command_chan, cur_cmd, pending_ack,
                   dispatch_log, ack_chan, ack_log, ackcmd_topic, wait_tasks,
                   received, remote_seq>>
    /\ UNCHANGED <<heartbeat_log, telemetry_loop_task, telemetry_tasks, telemetry_pos,
                   telemetry_log>>
    /\ UNCHANGED <<cur_state, ack_writing>>
    /\ UNCHANGED <<rd_vars, rc_vars, wr_vars, st_vars, nw_vars>>

\* A command reader task: process_command returned a record, which is sent
\* on the command channel together with a clone of the ack sender.
ReceiveCommand ==
    /\ csc_pc = "started"
    /\ Len(received) < MaxCmds
    /\ Len(command_chan) < CommandChanCap
    /\ \E r \in Remotes :
         \E cmd \in CommandData(Len(received) + 1, r, remote_seq[r]) :
            /\ command_chan' = Append(command_chan, cmd)
            /\ received' = Append(received, cmd)
            /\ remote_seq' = [remote_seq EXCEPT ![r] = @ + 1]
    /\ UNCHANGED <<summary_state, csc_pc, run_pc, cur_cmd, pending_ack, dispatch_log,
                   ack_chan, ack_log, ackcmd_topic, summaryState_topic, wait_tasks,
                   n_faults>>
    /\ UNCHANGED <<cur_state, ack_writing>>
    /\ UNCHANGED <<rd_vars, rc_vars, wr_vars, st_vars, nw_vars, bg_vars>>

\* do_start spawns a telemetry loop task before it sets and publishes the
\* new state.
telemetry_spawn(state, cmd) ==
    cmd.name = "command_start" /\ state = "Standby"

\* do_disable aborts the task it holds after the state was published; the
\* handle stays in place.
telemetry_abort(state, cmd, wr_ok) ==
    cmd.name = "command_disable" /\ state = "Enabled" /\ wr_ok

\* do_start stores the handle of the loop it spawned over the one it held:
\* a loop that was running goes on without a handle, wherever it is in its
\* iteration, and the new loop starts its first iteration.
telemetry_handle_overwritten ==
    [held |-> FALSE,
     orphans |-> IF telemetry_loop_task = "running" /\ telemetry_pos.held
                 THEN telemetry_pos.orphans + 1
                 ELSE telemetry_pos.orphans]

\* Mutant of Dispatch: leaving Enabled cancels the sleeping wait tasks.
Dispatch_cancels_waits ==
    /\ run_pc = "recv"
    /\ command_chan # <<>>
    /\ LET cmd == Head(command_chan)
           h == handle_command(summary_state, cmd, TRUE)
       IN /\ command_chan' = Tail(command_chan)
          /\ cur_cmd' = cmd
          /\ summary_state' = h.state
          /\ IF WritesEvent(summary_state, cmd)
             THEN /\ run_pc' = "write"
                  /\ cur_state' = summary_state
                  /\ telemetry_loop_task' =
                        IF telemetry_spawn(summary_state, cmd) THEN "running"
                        ELSE telemetry_loop_task
                  /\ telemetry_tasks' =
                        IF telemetry_spawn(summary_state, cmd) THEN telemetry_tasks + 1
                        ELSE telemetry_tasks
                  /\ telemetry_pos' =
                        IF telemetry_spawn(summary_state, cmd)
                        THEN telemetry_handle_overwritten
                        ELSE telemetry_pos
                  /\ wait_tasks' = IF h.state = "Enabled" THEN wait_tasks ELSE {}
                  /\ UNCHANGED <<dispatch_log, pending_ack>>
             ELSE /\ dispatch_log' = Append(dispatch_log,
                        [cmd |-> cmd, before |-> summary_state, after |-> h.state,
                         events |-> h.events, ok |-> h.ok, ack |-> h.ack])
                  /\ wait_tasks' = IF h.state = "Enabled" THEN wait_tasks \cup h.spawned
                                    ELSE {}
                  /\ pending_ack' = h.ack
                  /\ run_pc' = IF h.ok THEN "send_ack" ELSE "ended_err"
                  /\ UNCHANGED <<cur_state, telemetry_loop_task, telemetry_tasks,
                                 telemetry_pos>>
    /\ UNCHANGED <<csc_pc, ack_chan, ack_log, ackcmd_topic, summaryState_topic,
                   received, remote_seq, n_faults, ack_writing>>
    /\ UNCHANGED <<heartbeat_task, heartbeat_log, telemetry_log>>
    /\ UNCHANGED <<rd_vars, rc_vars, wr_vars, st_vars, nw_vars>>

\* Mutant of Dispatch: a handler's Err is dropped and the loop goes on.
Dispatch_continue_on_err ==
    /\ run_pc = "recv"
    /\ command_chan # <<>>
    /\ LET cmd == Head(command_chan)
           h == handle_command(summary_state, cmd, TRUE)
       IN /\ command_chan' = Tail(command_chan)
          /\ cur_cmd' = cmd
          /\ summary_state' = h.state
          /\ IF WritesEvent(summary_state, cmd)
             THEN /\ run_pc' = "write"
                  /\ cur_state' = summary_state
                  /\ telemetry_loop_task' =
                        IF telemetry_spawn(summary_state, cmd) THEN "running"
                        ELSE telemetry_loop_task
                  /\ telemetry_tasks' =
                        IF telemetry_spawn(summary_state, cmd) THEN telemetry_tasks + 1
                        ELSE telemetry_tasks
                  /\ telemetry_pos' =
                        IF telemetry_spawn(summary_state, cmd)
                        THEN telemetry_handle_overwritten
                        ELSE telemetry_pos
                  /\ UNCHANGED <<dispatch_log, wait_tasks, pending_ack>>
             ELSE /\ dispatch_log' = Append(dispatch_log,
                        [cmd |-> cmd, before |-> summary_state, after |-> h.state,
                         events |-> h.events, ok |-> h.ok, ack |-> h.ack])
                  /\ wait_tasks' = wait_tasks \cup h.spawned
                  /\ pending_ack' = h.ack
                  /\ run_pc' = IF h.ok THEN "send_ack" ELSE "recv"
                  /\ UNCHANGED <<cur_state, telemetry_loop_task, telemetry_tasks,
                                 telemetry_pos>>
    /\ UNCHANGED <<csc_pc, ack_chan, ack_log, ackcmd_topic, summaryState_topic,
                   received, remote_seq, n_faults, ack_writing>>
    /\ UNCHANGED <<heartbeat_task, heartbeat_log, telemetry_log>>
    /\ UNCHANGED <<rd_vars, rc_vars, wr_vars, st_vars, nw_vars>>

\* Mutant of Dispatch: the next command is taken while the ack of the one
\* before is not yet sent.
Dispatch_before_ack_sent ==
    /\ run_pc \in {"recv", "send_ack"}
    /\ command_chan # <<>>
    /\ LET cmd == Head(command_chan)
           h == handle_command(summary_state, cmd, TRUE)
       IN /\ command_chan' = Tail(command_chan)
          /\ cur_cmd' = cmd
          /\ summary_state' = h.state
          /\ IF WritesEvent(summary_state, cmd)
             THEN /\ run_pc' = "write"
                  /\ cur_state' = summary_state
                  /\ telemetry_loop_task' =
                        IF telemetry_spawn(summary_state, cmd) THEN "running"
                        ELSE telemetry_loop_task
                  /\ telemetry_tasks' =
                        IF telemetry_spawn(summary_state, cmd) THEN telemetry_tasks + 1
                        ELSE telemetry_tasks
                  /\ telemetry_pos' =
                        IF telemetry_spawn(summary_state, cmd)
                        THEN telemetry_handle_overwritten
                        ELSE telemetry_pos
                  /\ UNCHANGED <<dispatch_log, wait_tasks, pending_ack>>
             ELSE /\ dispatch_log' = Append(dispatch_log,
                        [cmd |-> cmd, before |-> summary_state, after |-> h.state,
                         events |-> h.events, ok |-> h.ok, ack |-> h.ack])
                  /\ wait_tasks' = wait_tasks \cup h.spawned
                  /\ pending_ack' = h.ack
                  /\ run_pc' = IF h.ok THEN "send_ack" ELSE "ended_err"
                  /\ UNCHANGED <<cur_state, telemetry_loop_task, telemetry_tasks,
                                 telemetry_pos>>
    /\ UNCHANGED <<csc_pc, ack_chan, ack_log, ackcmd_topic, summaryState_topic,
                   received, remote_seq, n_faults, ack_writing>>
    /\ UNCHANGED <<heartbeat_task, heartbeat_log, telemetry_log>>
    /\ UNCHANGED <<rd_vars, rc_vars, wr_vars, st_vars, nw_vars>>

\* run(): command_receiver.recv() and the handler the macro selects, up to
\* the handler's return or, for a handler that writes an event, up to the
\* await of that write: set_summary_state (and the spawn of do_start) come
\* before it.
Dispatch ==
    /\ run_pc = "recv"
    /\ command_chan # <<>>
    /\ LET cmd == Head(command_chan)
           h == handle_command(summary_state, cmd, TRUE)
       IN /\ command_chan' = Tail(command_chan)
          /\ cur_cmd' = cmd
          /\ summary_state' = h.state
          /\ IF WritesEvent(summary_state, cmd)
             THEN /\ run_pc' = "write"
                  /\ cur_state' = summary_state
                  /\ telemetry_loop_task' =
                        IF telemetry_spawn(summary_state, cmd) THEN "running"
                        ELSE telemetry_loop_task
                  /\ telemetry_tasks' =
                        IF telemetry_spawn(summary_state, cmd) THEN telemetry_tasks + 1
                        ELSE telemetry_tasks
                  /\ telemetry_pos' =
                        IF telemetry_spawn(summary_state, cmd)
                        THEN telemetry_handle_overwritten
                        ELSE telemetry_pos
                  /\ UNCHANGED <<dispatch_log, wait_tasks, pending_ack>>
             ELSE /\ dispatch_log' = Append(dispatch_log,
                        [cmd |-> cmd, before |-> summary_state, after |-> h.state,
                         events |-> h.events, ok |-> h.ok, ack |-> h.ack])
                  /\ wait_tasks' = wait_tasks \cup h.spawned
                  /\ pending_ack' = h.ack
                  /\ run_pc' = IF h.ok THEN "send_ack" ELSE "ended_err"
                  /\ UNCHANGED <<cur_state, telemetry_loop_task, telemetry_tasks,
                                 telemetry_pos>>
    /\ UNCHANGED <<csc_pc, ack_chan, ack_log, ackcmd_topic, summaryState_topic,
                   received, remote_seq, n_faults, ack_writing>>
    /\ UNCHANGED <<heartbeat_task, heartbeat_log, telemetry_log>>
    /\ UNCHANGED <<rd_vars, rc_vars, wr_vars, st_vars, nw_vars>>

\* The event write a handler awaits returns: update_summary_state()? of a
\* transition, write_event of setScalars and setArrays.  The handler runs
\* on to its return.
HandlerResume ==
    /\ run_pc = "write"
    /\ \E wr_ok \in BOOLEAN :
         /\ ~wr_ok => n_faults < MaxFaults
         /\ n_faults' = IF wr_ok THEN n_faults ELSE n_faults + 1
         /\ LET h == handle_command(cur_state, cur_cmd, wr_ok)
                abort == telemetry_abort(cur_state, cur_cmd, wr_ok)
                         /\ telemetry_loop_task = "running"
            IN /\ dispatch_log' = Append(dispatch_log,
                     [cmd |-> cur_cmd, before |-> cur_state, after |-> h.state,
                      events |-> h.events, ok |-> h.ok, ack |-> h.ack])
               /\ summaryState_topic' = summaryState_topic \o h.events
               /\ pending_ack' = h.ack
               /\ run_pc' = IF h.ok THEN "send_ack" ELSE "ended_err"
               /\ telemetry_loop_task' = IF abort THEN "aborted" ELSE telemetry_loop_task
               /\ telemetry_tasks' = IF abort THEN telemetry_tasks - 1 ELSE telemetry_tasks
               /\ telemetry_pos' = IF abort THEN [telemetry_pos EXCEPT !.held = FALSE]
                                   ELSE telemetry_pos
    /\ cur_state' = "none"
    /\ UNCHANGED <<summary_state, csc_pc, command_chan, cur_cmd, ack_chan, ack_log,
                   ackcmd_topic, wait_tasks, received, remote_seq, ack_writing>>
    /\ UNCHANGED <<heartbeat_task, heartbeat_log, telemetry_log>>
    /\ UNCHANGED <<rd_vars, rc_vars, wr_vars, st_vars, nw_vars>>

\* run(): ack_channel.send(command_ack); the exitControl branch sleeps one
\* second next, the other branches go back to recv().
SendAck ==
    /\ run_pc = "send_ack"
    /\ Len(ack_chan) < AckChanCap
    /\ ack_chan' = Append(ack_chan, pending_ack)
    /\ ack_log' = Append(ack_log, pending_ack)
    /\ run_pc' = IF cur_cmd.name = "command_exitControl" THEN "exit_sleep" ELSE "recv"
    /\ pending_ack' = NoAckValue
    /\ UNCHANGED <<summary_state, csc_pc, command_chan, cur_cmd, dispatch_log,
                   ackcmd_topic, summaryState_topic, wait_tasks, received,
                   remote_seq, n_faults, cur_state, ack_writing>>
    /\ UNCHANGED <<rd_vars, rc_vars, wr_vars, st_vars, nw_vars, bg_vars>>

\* Mutant of ExitSleep: the loop is not left after exitControl.
ExitSleep_no_break ==
    /\ run_pc = "exit_sleep"
    /\ run_pc' = "recv"
    /\ UNCHANGED <<summary_state, csc_pc, command_chan, cur_cmd, pending_ack,
                   dispatch_log, ack_chan, ack_log, ackcmd_topic, summaryState_topic,
                   wait_tasks, received, remote_seq, n_faults, cur_state, ack_writing>>
    /\ UNCHANGED <<rd_vars, rc_vars, wr_vars, st_vars, nw_vars, bg_vars>>

\* run(), exitControl branch: sleep(1 s) is over; break when the ack sent
\* was good (command_ack_is_good), back to recv() otherwise.
ExitSleep ==
    /\ run_pc = "exit_sleep"
    /\ run_pc' = IF is_ack_good(dispatch_log[Len(dispatch_log)].ack.ack)
                 THEN "ended_ok" ELSE "recv"
    /\ UNCHANGED <<summary_state, csc_pc, command_chan, cur_cmd, pending_ack,
                   dispatch_log, ack_chan, ack_log, ackcmd_topic, summaryState_topic,
                   wait_tasks, received, remote_seq, n_faults, cur_state, ack_writing>>
    /\ UNCHANGED <<rd_vars, rc_vars, wr_vars, st_vars, nw_vars, bg_vars>>

\* wait_and_ack: the sleep is over, send the Complete ack.
wait_and_ack ==
    /\ \E w \in wait_tasks :
         /\ Len(ack_chan) < AckChanCap
         /\ ack_chan' = Append(ack_chan, make_complete(w))
         /\ ack_log' = Append(ack_log, make_complete(w))
         /\ wait_tasks' = wait_tasks \ {w}
    /\ UNCHANGED <<summary_state, csc_pc, run_pc, command_chan, cur_cmd, pending_ack,
                   dispatch_log, ackcmd_topic, summaryState_topic, received,
                   remote_seq, n_faults, cur_state, ack_writing>>
    /\ UNCHANGED <<rd_vars, rc_vars, wr_vars, st_vars, nw_vars, bg_vars>>

\* WriteTopic::set_seq_num followed by write_typed on the ack writer: the
\* record's private_seqNum must be zero or the writer's next sequence
\* number, which is the number stamped on the published record.
write_typed(writer_seq, record) ==
    IF record.private_seqNum = 0 \/ record.private_seqNum = writer_seq
    THEN <<[record EXCEPT !.private_seqNum = writer_seq]>>
    ELSE <<>>

\* Mutant of AckTask: the newest ack in the channel is taken first.
AckTask_newest_first ==
    /\ ack_writing = NoAckValue
    /\ ack_chan # <<>>
    /\ ack_writing' = ack_chan[Len(ack_chan)]
    /\ ack_chan' = SubSeq(ack_chan, 1, Len(ack_chan) - 1)
    /\ UNCHANGED <<summary_state, csc_pc, run_pc, command_chan, cur_cmd, pending_ack,
                   dispatch_log, ack_log, ackcmd_topic, summaryState_topic, wait_tasks,
                   received, remote_seq, n_faults, cur_state>>
    /\ UNCHANGED <<rd_vars, rc_vars, wr_vars, st_vars, nw_vars, bg_vars>>

\* The ack task of ControllerCommandAck::start: ack_receiver.recv() hands
\* it the oldest ack of the channel.
AckTask ==
    /\ ack_writing = NoAckValue
    /\ ack_chan # <<>>
    /\ ack_writing' = Head(ack_chan)
    /\ ack_chan' = Tail(ack_chan)
    /\ UNCHANGED <<summary_state, csc_pc, run_pc, command_chan, cur_cmd, pending_ack,
                   dispatch_log, ack_log, ackcmd_topic, summaryState_topic, wait_tasks,
                   received, remote_seq, n_faults, cur_state>>
    /\ UNCHANGED <<rd_vars, rc_vars, wr_vars, st_vars, nw_vars, bg_vars>>

\* The ack task: the ackcmd record is built and ack_writer.write_typed
\* returns; a failed write is logged and the ack is dropped.
AckWrite ==
    /\ ack_writing # NoAckValue
    /\ LET ackcmd == [to_ackcmd(ack_writing) EXCEPT
                         !.salIndex = CscIndex,
                         !.private_identity = CscIdentity,
                         !.private_origin = CscOrigin,
                         !.private_seqNum = ack_writing.seq_num]
       IN \E wr_ok \in BOOLEAN :
            /\ ~wr_ok => n_faults < MaxFaults
            /\ n_faults' = IF wr_ok THEN n_faults ELSE n_faults + 1
            /\ ackcmd_topic' =
                 IF wr_ok
                 THEN ackcmd_topic \o write_typed(ackcmd.private_seqNum, ackcmd)
                 ELSE ackcmd_topic
    /\ ack_writing' = NoAckValue
    /\ UNCHANGED <<summary_state, csc_pc, run_pc, command_chan, cur_cmd, pending_ack,
                   dispatch_log, ack_chan, ack_log, summaryState_topic, wait_tasks,
                   received, remote_seq, cur_state>>
    /\ UNCHANGED <<rd_vars, rc_vars, wr_vars, st_vars, nw_vars, bg_vars>>

Next ==
    \/ CscStart
    \/ ReceiveCommand
    \/ Dispatch
    \/ HandlerResume
    \/ SendAck
    \/ ExitSleep
    \/ wait_and_ack
    \/ AckTask
    \/ AckWrite

Spec == Init /\ [][Next]_vars

(***************************************************************************)
(* Claims about the Test CSC, checked under Spec.                          *)
(***************************************************************************)
\* The acks sent on the ack channel for command `id`, in order.
AcksFor(id) == SelectSeq(ack_log, LAMBDA a : a.cmd_id = id)

\* The run loop has sent the ack of the i-th handler call.
AckSent(i) == i < Len(dispatch_log) \/ run_pc # "send_ack"

DomainNames == {"command_" \o n : n \in DomainCommands}

RejectedDomain(d) ==
    /\ d.cmd.name \in DomainNames
    /\ d.cmd.parses
    /\ d.before # "Enabled"

NotAllowedResult(d) ==
    CASE d.cmd.name = "command_setScalars" ->
            "Command setScalars not allowed in " \o d.before \o "."
      [] d.cmd.name = "command_setArrays" ->
            "Command setArrays not allowed in " \o d.before \o "."
      [] d.cmd.name = "command_wait" ->
            "Command wait not allowed in " \o d.before \o "."

\* C1: a domain command (setScalars, setArrays, wait) handled while the
\* summary state S is not Enabled gets exactly one ack on the ack channel,
\* with code Failed, error 1 and result "Command <name> not allowed in <S>.";
\* the summary state stays S and no summaryState event is published.
C1_DomainCommandRejected ==
    \A i \in DOMAIN dispatch_log :
        LET d == dispatch_log[i] IN
        RejectedDomain(d) =>
            /\ d.ok
            /\ d.after = d.before
            /\ d.events = <<>>
            /\ d.ack.ack = "CmdFailed"
            /\ d.ack.error = 1
            /\ d.ack.result = NotAllowedResult(d)
            /\ d.cmd \notin wait_tasks
            /\ IF AckSent(i)
               THEN AcksFor(d.cmd.id) = <<d.ack>>
               ELSE AcksFor(d.cmd.id) = <<>> /\ pending_ack = d.ack

C1_Witness ==
    \E i \in DOMAIN dispatch_log :
        /\ RejectedDomain(dispatch_log[i])
        /\ dispatch_log[i].cmd.name = "command_wait"
        /\ dispatch_log[i].before = "Disabled"
        /\ AckSent(i)
        /\ Len(AcksFor(dispatch_log[i].cmd.id)) = 1

\* The lifecycle transition table of the claim: the state a command leads
\* to from `from`, the same state when the command is not allowed there.
LifecycleTarget(name, from) ==
    CASE name = "command_start"       -> IF from = "Standby" THEN "Disabled" ELSE from
      [] name = "command_enable"      -> IF from = "Disabled" THEN "Enabled" ELSE from
      [] name = "command_disable"     -> IF from = "Enabled" THEN "Disabled" ELSE from
      [] name = "command_standby"     -> IF from \in {"Disabled", "Fault"}
                                         THEN "Standby" ELSE from
      [] name = "command_exitControl" -> IF from = "Standby" THEN "Offline" ELSE from
      [] name = "command_fault"       -> "Fault"
      [] OTHER                        -> from

LifecycleNames == {"command_" \o n : n \in LifecycleCommands}

IsLifecycle(name) == name \in LifecycleNames

\* The summary state at the end of the first i handler calls.
StateAfter(i) == IF i = 0 THEN "Standby" ELSE dispatch_log[i].after

\* C2: the summary state changes only along the allowed lifecycle
\* transitions: start Standby->Disabled, enable Disabled->Enabled, disable
\* Enabled->Disabled, standby Disabled|Fault->Standby, exitControl
\* Standby->Offline, fault ->Fault; a lifecycle command is accepted
\* (Complete) only where its transition is allowed and otherwise leaves the
\* state unchanged.  While a handler awaits its event write the state is
\* already the one its command leads to.
C2_LifecycleTransitions ==
    /\ run_pc # "write" => summary_state = StateAfter(Len(dispatch_log))
    /\ run_pc = "write" =>
          /\ cur_state = StateAfter(Len(dispatch_log))
          /\ summary_state = LifecycleTarget(cur_cmd.name, cur_state)
    /\ \A i \in DOMAIN dispatch_log :
          LET d == dispatch_log[i]
              target == LifecycleTarget(d.cmd.name, d.before)
          IN
          /\ d.before = StateAfter(i - 1)
          /\ d.cmd.parses => d.after = target
          /\ ~d.cmd.parses => d.after = d.before
          /\ IsLifecycle(d.cmd.name) =>
                IF target = d.before
                THEN d.ok /\ d.ack.ack = "CmdFailed"
                ELSE d.ok => d.ack.ack = "CmdComplete"

C2_Witness ==
    \E i, j, k \in DOMAIN dispatch_log :
        /\ dispatch_log[i].cmd.name = "command_disable"
        /\ dispatch_log[i].before = "Enabled"
        /\ dispatch_log[i].after = "Disabled"
        /\ dispatch_log[i].ack.ack = "CmdComplete"
        /\ dispatch_log[j].cmd.name = "command_start"
        /\ dispatch_log[k].cmd.name = "command_enable"

\* The value carried by the event of an accepted lifecycle command.
\* (Disabled 1, Enabled 2, Fault 3, Offline 4, Standby 5.)
NewStateValue(name) ==
    CASE name = "command_start"       -> 1
      [] name = "command_enable"      -> 2
      [] name = "command_disable"     -> 1
      [] name = "command_standby"     -> 5
      [] name = "command_exitControl" -> 4
      [] name = "command_fault"       -> 3

Accepted(d) ==
    /\ IsLifecycle(d.cmd.name) \/ d.cmd.name = "command_fault"
    /\ d.ok
    /\ d.ack.ack = "CmdComplete"

RECURSIVE EventsOf(_)
EventsOf(log) ==
    IF log = <<>> THEN <<>>
    ELSE (IF Accepted(Head(log)) THEN <<NewStateValue(Head(log).cmd.name)>> ELSE <<>>)
         \o EventsOf(Tail(log))

\* C3: the summaryState events published are: first Standby (5), published
\* by start(), then one event per accepted lifecycle command carrying the
\* new state, in order; rejected commands publish none.
C3_SummaryStateEvents ==
    /\ csc_pc = "new" => summaryState_topic = <<>>
    /\ csc_pc = "started" => summaryState_topic = <<5>> \o EventsOf(dispatch_log)
    /\ csc_pc = "started" /\ run_pc \notin {"write", "ended_err"} =>
          summaryState_topic[Len(summaryState_topic)] = with_summary_state(summary_state)

C3_Witness ==
    /\ Len(summaryState_topic) = 3
    /\ summaryState_topic[3] = 2
    /\ \E i \in DOMAIN dispatch_log : dispatch_log[i].ack.ack = "CmdFailed"

\* C10: every record published on ackcmd carries the private_seqNum of the
\* command it answers and, in its payload, origin and identity equal to the
\* private_origin and private_identity of that command, whatever the ack
\* code and whoever sent it (the run loop or a wait task).
C10_AckCorrelation ==
    \A i \in DOMAIN ackcmd_topic :
        LET a == ackcmd_topic[i]
            c == received[a.cmd_id]
        IN /\ a.private_seqNum = c.private_seqNum
           /\ a.origin = c.private_origin
           /\ a.identity = c.private_identity

C10_Witness ==
    \E i, j, k \in DOMAIN ackcmd_topic :
        /\ i < j
        /\ ackcmd_topic[i].cmd_id = ackcmd_topic[j].cmd_id
        /\ ackcmd_topic[i].ack = 301
        /\ ackcmd_topic[j].ack = 303
        /\ ackcmd_topic[i].origin = 202
        /\ ackcmd_topic[k].origin = 101

\* What identifies an ack: the command it answers and its code.
AckKey(command_ack) == <<command_ack.cmd_id, get_ack(command_ack.ack)>>

\* The acks the drain task has taken from the channel so far.
Drained == SubSeq(ack_log, 1, Len(ack_log) - Len(ack_chan))

\* The acks the drain task has taken and is through with.
Written == IF ack_writing = NoAckValue THEN Len(Drained) ELSE Len(Drained) - 1

\* C11: the ack drain task publishes the acks on ackcmd in the order in
\* which they were enqueued on the ack channel, each enqueued ack at most
\* once; what is still in the channel is the tail of what was enqueued.
C11_AckOrder ==
    /\ Len(ack_chan) <= Len(ack_log)
    /\ ack_chan = SubSeq(ack_log, Len(ack_log) - Len(ack_chan) + 1, Len(ack_log))
    /\ LET keys == [k \in DOMAIN ack_log |-> AckKey(ack_log[k])]
           n_drained == Len(ack_log) - Len(ack_chan)
           pos == [i \in DOMAIN ackcmd_topic |->
                     {k \in 1..n_drained :
                         keys[k] = <<ackcmd_topic[i].cmd_id, ackcmd_topic[i].ack>>}]
       IN /\ \A i, j \in DOMAIN ack_log : i < j => keys[i] # keys[j]
          /\ \A i \in DOMAIN ackcmd_topic : pos[i] # {}
          /\ \A i \in 1..(Len(ackcmd_topic) - 1) :
                \A k \in pos[i], l \in pos[i + 1] : k < l
    /\ ack_writing # NoAckValue => ack_writing = Drained[Len(Drained)]
    /\ Written - Len(ackcmd_topic) <= n_faults

C11_Witness ==
    /\ Len(ackcmd_topic) = 3
    /\ Len(ack_log) = 4
    /\ ack_chan = <<>>
    /\ ackcmd_topic[1].cmd_id # ackcmd_topic[2].cmd_id
    /\ ackcmd_topic[2].ack = 303
    /\ ackcmd_topic[3].ack = 301

\* wait_and_ack: Duration::from_secs(wait.duration as u64), duration in tenths.
WaitSleep(duration) == duration \div 10

\* The positions in ack_log of the acks with code `code` for command `id`.
AckPositions(id, code) ==
    {k \in DOMAIN ack_log : ack_log[k].cmd_id = id /\ ack_log[k].ack = code}

\* C12: for a wait command accepted in Enabled the InProgress ack is
\* enqueued on the ack channel before the Complete ack of the same command
\* (stated here for the waits that sleep zero seconds).
C12_InProgressBeforeComplete ==
    \A i \in DOMAIN dispatch_log :
        LET d == dispatch_log[i] IN
        (/\ d.cmd.name = "command_wait"
         /\ d.ok
         /\ d.ack.ack = "CmdInprogress"
         /\ WaitSleep(d.cmd.duration) = 0) =>
            \A c \in AckPositions(d.cmd.id, "CmdComplete") :
                \E p \in AckPositions(d.cmd.id, "CmdInprogress") : p < c

\* The name of the state a lifecycle command leads to.
TargetName(name) ==
    CASE name = "command_start"       -> "Disabled"
      [] name = "command_enable"      -> "Enabled"
      [] name = "command_disable"     -> "Disabled"
      [] name = "command_standby"     -> "Standby"
      [] name = "command_exitControl" -> "Offline"

\* C14: a lifecycle command (start, enable, disable, standby, exitControl)
\* handled in a state its transition is not allowed from is answered Failed
\* with result "Invalid state transition <from> -> <to>.", <from> the
\* current state and <to> the target state of the command, and the summary
\* state is unchanged.
C14_InvalidTransitionMessage ==
    \A i \in DOMAIN dispatch_log :
        LET d == dispatch_log[i] IN
        (IsLifecycle(d.cmd.name) /\ LifecycleTarget(d.cmd.name, d.before) = d.before) =>
            /\ d.ok
            /\ d.ack.ack = "CmdFailed"
            /\ d.after = d.before
            /\ d.ack.result = "Invalid state transition " \o d.before \o " -> "
                                 \o TargetName(d.cmd.name) \o "."

\* C15: the fault command is accepted in every lifecycle state: it sets the
\* summary state to Fault, publishes a summaryState event with value 3 and
\* is answered Complete.  (The handler returns Err instead, with the state
\* already set, only when the payload does not parse or the transport
\* fails the event write.)
C15_FaultAccepted ==
    \A i \in DOMAIN dispatch_log :
        LET d == dispatch_log[i] IN
        (d.cmd.name = "command_fault" /\ d.cmd.parses) =>
            /\ d.after = "Fault"
            /\ d.ok => (d.events = <<3>> /\ d.ack.ack = "CmdComplete" /\ d.ack.error = 0)
            /\ ~d.ok => (d.events = <<>> /\ n_faults > 0)

C15_Witness ==
    /\ \E i \in DOMAIN dispatch_log :
          /\ dispatch_log[i].cmd.name = "command_fault"
          /\ dispatch_log[i].before = "Enabled"
          /\ dispatch_log[i].ack.ack = "CmdComplete"
    /\ summary_state = "Fault"
    /\ summaryState_topic = <<5, 1, 2, 3>>
    /\ n_faults = 0

\* The names the run loop has a branch for: exitControl and the arguments
\* of handle_command!.
HandlerNames ==
    {"command_" \o n : n \in LifecycleCommands \cup DomainCommands \cup {"fault"}}

HasHandler(name) == name \in HandlerNames

\* C22: a command whose name has no handler is answered with exactly one
\* ack on the ack channel: Failed, error 1, result "Command <name> not
\* implemented.", carrying the origin, identity and sequence number of the
\* command; the state is unchanged and the run loop goes back to receiving.
C22_NotImplemented ==
    \A i \in DOMAIN dispatch_log :
        LET d == dispatch_log[i] IN
        ~HasHandler(d.cmd.name) =>
            /\ d.ok
            /\ d.after = d.before
            /\ d.events = <<>>
            /\ d.ack.ack = "CmdFailed"
            /\ d.ack.error = 1
            /\ d.ack.result = "Command " \o d.cmd.name \o " not implemented."
            /\ d.ack.origin = d.cmd.private_origin
            /\ d.ack.identity = d.cmd.private_identity
            /\ d.ack.seq_num = d.cmd.private_seqNum
            /\ IF AckSent(i)
               THEN /\ AcksFor(d.cmd.id) = <<d.ack>>
                    /\ i = Len(dispatch_log) => run_pc \in {"recv", "write"}
               ELSE AcksFor(d.cmd.id) = <<>> /\ pending_ack = d.ack

C22_Witness ==
    /\ Len(dispatch_log) = 3
    /\ dispatch_log[2].cmd.name = "command_enterControl"
    /\ dispatch_log[2].before = "Disabled"
    /\ dispatch_log[2].ack.result = "Command command_enterControl not implemented."
    /\ dispatch_log[3].cmd.name = "command_enable"
    /\ dispatch_log[3].ack.ack = "CmdComplete"
    /\ summary_state = "Enabled"
    /\ Len(ack_log) = 3

\* C23: exitControl handled in Standby sets the state to Offline, is
\* answered Complete, and the run loop ends once that ack is sent (after the
\* sleep that follows the send): no later command is handled.  exitControl handled in any other state is
\* answered Failed, leaves the state, and the run loop goes on receiving.
C23_ExitControl ==
    /\ \A i \in DOMAIN dispatch_log :
          LET d == dispatch_log[i] IN
          d.cmd.name = "command_exitControl" =>
              IF d.before = "Standby"
              THEN /\ d.after = "Offline"
                   /\ i = Len(dispatch_log)
                   /\ d.ok => /\ d.ack.ack = "CmdComplete"
                              /\ d.events = <<4>>
                              /\ run_pc \in {"send_ack", "exit_sleep", "ended_ok"}
                              /\ AckSent(i) => AcksFor(d.cmd.id) = <<d.ack>>
                   /\ ~d.ok => run_pc = "ended_err" /\ n_faults > 0
              ELSE /\ d.ok
                   /\ d.after = d.before
                   /\ d.ack.ack = "CmdFailed"
                   /\ (AckSent(i) /\ i = Len(dispatch_log)) =>
                         run_pc \in {"exit_sleep", "recv", "write"}
    /\ run_pc = "ended_ok" =>
          /\ dispatch_log # <<>>
          /\ dispatch_log[Len(dispatch_log)].cmd.name = "command_exitControl"
          /\ summary_state = "Offline"

C23_Witness ==
    /\ run_pc = "ended_ok"
    /\ summary_state = "Offline"
    /\ Len(received) = 3
    /\ Len(dispatch_log) = 1
    /\ Len(command_chan) = 2
    /\ command_chan[1].name = "command_start"
    /\ Len(AcksFor(dispatch_log[1].cmd.id)) = 1
    /\ AcksFor(dispatch_log[1].cmd.id)[1].ack = "CmdComplete"

\* C25: the timeout of the InProgress ack of an accepted wait command is at
\* least twice the duration of the wait (timeout in seconds, duration in
\* tenths of a second).
C25_TimeoutTwiceDuration ==
    \A i \in DOMAIN dispatch_log :
        LET d == dispatch_log[i] IN
        (d.cmd.name = "command_wait" /\ d.ok /\ d.ack.ack = "CmdInprogress") =>
            d.ack.timeout * 10 >= 2 * d.cmd.duration

\* The command names of the component in lexicographic order.
SortedCommandNames ==
    <<"command_disable", "command_enable", "command_enterControl",
      "command_exitControl", "command_fault", "command_setArrays",
      "command_setScalars", "command_standby", "command_start", "command_wait">>

\* command_index: the position (from 0) of a command in that list.
command_index(name) ==
    (CHOOSE k \in DOMAIN SortedCommandNames : SortedCommandNames[k] = name) - 1

\* C28: the cmdtype of every ack published for a command is the position
\* of the command's name in the lexicographic list of the command names.
C28_CmdtypeIsCommandIndex ==
    \A k \in DOMAIN ackcmd_topic :
        ackcmd_topic[k].cmdtype = command_index(received[ackcmd_topic[k].cmd_id].name)

(***************************************************************************)
(* Background tasks of the Test CSC: the heartbeat task spawned by start   *)
(* and the telemetry loop spawned by do_start, checked under SpecBeat.     *)
(* The remote of SpecBeat issues lifecycle commands only, one at a time.    *)
(***************************************************************************)
MaxBeats == 2
MaxTelemetry == 2

\* The history entry of a heartbeat write: whether it was made with the run
\* loop ended and, for a failed write, how many commands were handled
\* before it.
Beat(wr_ok) ==
    IF wr_ok
    THEN [ok |-> TRUE, run_ended |-> run_pc = "ended_ok"]
    ELSE [ok |-> FALSE, run_ended |-> run_pc = "ended_ok",
          dispatched |-> Len(dispatch_log)]

\* Mutant of heartbeat: a failed write ends the run loop of the CSC as
\* well as the heartbeat task.
heartbeat_ends_run ==
    /\ heartbeat_task = "running"
    /\ Len(heartbeat_log) < MaxBeats
    /\ \E wr_ok \in BOOLEAN :
         /\ ~wr_ok => n_faults < MaxFaults
         /\ n_faults' = IF wr_ok THEN n_faults ELSE n_faults + 1
         /\ heartbeat_log' = Append(heartbeat_log, Beat(wr_ok))
         /\ heartbeat_task' = IF wr_ok THEN "running" ELSE "ended"
         /\ run_pc' = IF wr_ok THEN run_pc ELSE "ended_err"
    /\ UNCHANGED <<summary_state, csc_pc, command_chan, cur_cmd, pending_ack,
                   dispatch_log, ack_chan, ack_log, ackcmd_topic, summaryState_topic,
                   wait_tasks, received, remote_seq>>
    /\ UNCHANGED <<telemetry_loop_task, telemetry_tasks, telemetry_pos, telemetry_log>>
    /\ UNCHANGED <<cur_state, ack_writing>>
    /\ UNCHANGED <<rd_vars, rc_vars, wr_vars, st_vars, nw_vars>>

\* One iteration of the heartbeat task's loop: write_typed, break on an
\* error, sleep(HEARTBEAT_TIME) otherwise.
heartbeat ==
    /\ heartbeat_task = "running"
    /\ Len(heartbeat_log) < MaxBeats
    /\ \E wr_ok \in BOOLEAN :
         /\ ~wr_ok => n_faults < MaxFaults
         /\ n_faults' = IF wr_ok THEN n_faults ELSE n_faults + 1
         /\ heartbeat_log' = Append(heartbeat_log, Beat(wr_ok))
         /\ heartbeat_task' = IF wr_ok THEN "running" ELSE "ended"
    /\ UNCHANGED <<summary_state, csc_pc, run_pc, command_chan, cur_cmd, pending_ack,
                   dispatch_log, ack_chan, ack_log, ackcmd_topic, summaryState_topic,
                   wait_tasks, received, remote_seq>>
    /\ UNCHANGED <<telemetry_loop_task, telemetry_tasks, telemetry_pos, telemetry_log>>
    /\ UNCHANGED <<cur_state, ack_writing>>
    /\ UNCHANGED <<rd_vars, rc_vars, wr_vars, st_vars, nw_vars>>

\* The telemetry loops that run without a handle.
telemetry_orphans ==
    telemetry_tasks - (IF telemetry_loop_task = "running" THEN 1 ELSE 0)

\* A telemetry loop up to the return of its next write_typed.  Each
\* iteration awaits two writes, one per telemetry writer (scalars and
\* arrays, in the order of the HashMap), and drops their results: a failed
\* first write is followed by the second.  The loop is that of the handle
\* the CSC holds or one running without a handle.
telemetry_loop ==
    /\ telemetry_tasks > 0
    /\ Len(telemetry_log) < MaxTelemetry
    /\ \E held \in BOOLEAN, nth \in {1, 2}, wr_ok \in BOOLEAN :
         /\ IF held
            THEN /\ telemetry_loop_task = "running"
                 /\ nth = IF telemetry_pos.held THEN 2 ELSE 1
                 /\ telemetry_pos' = [telemetry_pos EXCEPT !.held = (nth = 1)]
            ELSE /\ IF nth = 1
                    THEN telemetry_orphans > telemetry_pos.orphans
                    ELSE telemetry_pos.orphans > 0
                 /\ telemetry_pos' =
                       [telemetry_pos EXCEPT !.orphans = IF nth = 1 THEN @ + 1 ELSE @ - 1]
         /\ ~wr_ok => n_faults < MaxFaults
         /\ n_faults' = IF wr_ok THEN n_faults ELSE n_faults + 1
         /\ telemetry_log' = Append(telemetry_log,
                [ok |-> wr_ok, nth |-> nth, held |-> held,
                 run_ended |-> run_pc = "ended_ok", summary_state |-> summary_state])
    /\ UNCHANGED <<summary_state, csc_pc, run_pc, command_chan, cur_cmd, pending_ack,
                   dispatch_log, ack_chan, ack_log, ackcmd_topic, summaryState_topic,
                   wait_tasks, received, remote_seq>>
    /\ UNCHANGED <<heartbeat_task, heartbeat_log, telemetry_loop_task, telemetry_tasks>>
    /\ UNCHANGED <<cur_state, ack_writing>>
    /\ UNCHANGED <<rd_vars, rc_vars, wr_vars, st_vars, nw_vars>>

\* A command reader task hands over a lifecycle command issued by alice,
\* who issues her commands one at a time: the next one when the run loop
\* and the ack task are through with the one before.
ReceiveLifecycleCommand ==
    /\ csc_pc = "started"
    /\ Len(received) < MaxCmds
    /\ command_chan = <<>>
    /\ run_pc = "recv"
    /\ ack_chan = <<>>
    /\ ack_writing = NoAckValue
    /\ \E cmd \in CommandData(Len(received) + 1, "alice", remote_seq["alice"]) :
         /\ cmd.parses
         /\ cmd.name \in {"command_" \o n : n \in LifecycleCommands}
         /\ command_chan' = Append(command_chan, cmd)
         /\ received' = Append(received, cmd)
         /\ remote_seq' = [remote_seq EXCEPT !["alice"] = @ + 1]
    /\ UNCHANGED <<summary_state, csc_pc, run_pc, cur_cmd, pending_ack, dispatch_log,
                   ack_chan, ack_log, ackcmd_topic, summaryState_topic, wait_tasks,
                   n_faults>>
    /\ UNCHANGED <<cur_state, ack_writing>>
    /\ UNCHANGED <<rd_vars, rc_vars, wr_vars, st_vars, nw_vars, bg_vars>>

BeatNext ==
    \/ CscStart
    \/ ReceiveLifecycleCommand
    \/ Dispatch
    \/ HandlerResume
    \/ SendAck
    \/ ExitSleep
    \/ AckTask
    \/ AckWrite
    \/ heartbeat
    \/ telemetry_loop

SpecBeat == Init /\ [][BeatNext]_vars

\* The CSC with its heartbeat task, the telemetry loops left aside.
BeatLiveNext ==
    \/ CscStart
    \/ ReceiveLifecycleCommand
    \/ Dispatch
    \/ HandlerResume
    \/ SendAck
    \/ ExitSleep
    \/ AckTask
    \/ AckWrite
    \/ heartbeat

\* The tokio runtime keeps polling the run loop, which main awaits, and the
\* ack task, and the writes, sends and sleeps they await return: weak
\* fairness on their steps.  Nothing is assumed of the heartbeat task and
\* of the remote.
SpecBeatLive ==
    /\ Init
    /\ [][BeatLiveNext]_vars
    /\ WF_vars(Dispatch)
    /\ WF_vars(HandlerResume)
    /\ WF_vars(SendAck)
    /\ WF_vars(ExitSleep)
    /\ WF_vars(AckTask)
    /\ WF_vars(AckWrite)

(***************************************************************************)
(* Claims about the background tasks, checked under SpecBeat.              *)
(***************************************************************************)
\* The heartbeat writes that failed.
FailedBeats == {k \in DOMAIN heartbeat_log : ~heartbeat_log[k].ok}

\* The step is a heartbeat write that failed.
HeartbeatFails ==
    /\ Len(heartbeat_log') = Len(heartbeat_log) + 1
    /\ ~heartbeat_log'[Len(heartbeat_log')].ok

\* The run loop has ended the way a command ends it: after a good
\* exitControl, or with the error of the handler it called last.
RunEndedByCommand ==
    \/ run_pc = "ended_ok"
    \/ /\ run_pc = "ended_err"
       /\ dispatch_log # <<>>
       /\ ~dispatch_log[Len(dispatch_log)].ok

\* The ack of command id was sent by the run loop, taken from the channel
\* by the ack task and written; it is on the ackcmd topic unless a write
\* other than the heartbeat's failed as well.
Acknowledged(id) ==
    /\ AcksFor(id) # <<>>
    /\ \A k \in DOMAIN ack_chan : ack_chan[k].cmd_id # id
    /\ ack_writing = NoAckValue \/ ack_writing.cmd_id # id
    /\ \/ \E k \in DOMAIN ackcmd_topic : ackcmd_topic[k].cmd_id = id
       \/ n_faults > 1

\* C26: a heartbeat write that fails is the last heartbeat the task
\* attempts and ends the heartbeat task; the failure changes nothing of
\* the command readers, the run loop and the ack task, which keep running:
\* every command received, before or after the failure, is eventually
\* acknowledged on the ackcmd topic, unless a command ended the run loop.
C26_HeartbeatFailureIsolated ==
    /\ [](\A k \in FailedBeats : k = Len(heartbeat_log) /\ heartbeat_task = "ended")
    /\ [][HeartbeatFails =>
            UNCHANGED <<summary_state, csc_pc, run_pc, command_chan, cur_cmd,
                        pending_ack, cur_state, dispatch_log, ack_chan, ack_writing,
                        ack_log, ackcmd_topic, summaryState_topic, wait_tasks,
                        received, remote_seq>>]_vars
    /\ \A id \in 1..MaxCmds :
          (FailedBeats # {} /\ Len(received) >= id)
              ~> (Acknowledged(id) \/ RunEndedByCommand)

\* The first heartbeat write failed before any command was handled, and
\* three commands were handled and acknowledged on the ackcmd topic since.
C26_Witness ==
    /\ FailedBeats = {1}
    /\ heartbeat_log[1].dispatched = 0
    /\ heartbeat_task = "ended"
    /\ Len(dispatch_log) = 3
    /\ Len(ackcmd_topic) = 3
    /\ summary_state = "Enabled"

\* C27: once the run loop has ended after a successful exitControl, the
\* heartbeat task and the telemetry loops are stopped, and no heartbeat or
\* telemetry write happens with the run loop ended.
C27_TasksAbortedOnShutdown ==
    /\ run_pc = "ended_ok" => (heartbeat_task # "running" /\ telemetry_tasks = 0)
    /\ \A k \in DOMAIN heartbeat_log : ~heartbeat_log[k].run_ended
    /\ \A k \in DOMAIN telemetry_log : ~telemetry_log[k].run_ended

\* The parts of C27, one background task each.
C27_HeartbeatSilentAfterShutdown ==
    \A k \in DOMAIN heartbeat_log : ~(heartbeat_log[k].run_ended /\ heartbeat_log[k].ok)

C27_TelemetrySilentAfterShutdown ==
    \A k \in DOMAIN telemetry_log : ~(telemetry_log[k].run_ended /\ telemetry_log[k].ok)

(***************************************************************************)
(* The wait tasks under fair scheduling, checked under SpecLive.  The      *)
(* remote of SpecLive brings the CSC to Enabled with start and enable,     *)
(* issues a wait and then the commands that leave Enabled.  The tokio      *)
(* runtime polls a spawned wait_and_ack task once its sleep is over: weak  *)
(* fairness on wait_and_ack.  The runtime lives as long as main, which     *)
(* returns when run() has returned.                                        *)
(***************************************************************************)
MaxLiveCmds == 6

\* The commands alice issues as her n-th command under SpecLive.
LiveCommands(n) ==
    CASE n = 1 -> {"start"}
      [] n = 2 -> {"enable"}
      [] n = 3 -> {"wait"}
      [] n = 4 -> {"disable", "fault", "exitControl"}
      [] n = 5 -> {"standby"}
      [] OTHER -> {"exitControl"}

\* A command reader task hands over the next command issued by alice.
ReceiveLiveCommand ==
    /\ csc_pc = "started"
    /\ Len(received) < MaxLiveCmds
    /\ Len(command_chan) < CommandChanCap
    /\ \E cmd \in CommandData(Len(received) + 1, "alice", remote_seq["alice"]) :
         /\ cmd.parses
         /\ cmd.name \in {"command_" \o n : n \in LiveCommands(Len(received) + 1)}
         /\ command_chan' = Append(command_chan, cmd)
         /\ received' = Append(received, cmd)
         /\ remote_seq' = [remote_seq EXCEPT !["alice"] = @ + 1]
    /\ UNCHANGED <<summary_state, csc_pc, run_pc, cur_cmd, pending_ack, dispatch_log,
                   ack_chan, ack_log, ackcmd_topic, summaryState_topic, wait_tasks,
                   n_faults>>
    /\ UNCHANGED <<cur_state, ack_writing>>
    /\ UNCHANGED <<rd_vars, rc_vars, wr_vars, st_vars, nw_vars, bg_vars>>

\* main of run_test_csc: run() has returned, main returns and the tokio
\* runtime is dropped: the tasks it spawned are cancelled where they are
\* suspended, the sleeping wait_and_ack tasks, the ack task, the heartbeat
\* task and every telemetry loop among them, and the channels go with their
\* ends.
main_returns ==
    /\ csc_pc = "started"
    /\ run_pc \in {"ended_ok", "ended_err"}
    /\ csc_pc' = "exited"
    /\ wait_tasks' = {}
    /\ command_chan' = <<>>
    /\ ack_chan' = <<>>
    /\ ack_writing' = NoAckValue
    /\ heartbeat_task' = IF heartbeat_task = "running" THEN "ended" ELSE heartbeat_task
    /\ telemetry_loop_task' = IF telemetry_loop_task = "running" THEN "aborted"
                              ELSE telemetry_loop_task
    /\ telemetry_tasks' = 0
    /\ telemetry_pos' = [held |-> FALSE, orphans |-> 0]
    /\ UNCHANGED <<heartbeat_log, telemetry_log>>
    /\ UNCHANGED <<summary_state, run_pc, cur_cmd, pending_ack, dispatch_log, ack_log,
                   ackcmd_topic, summaryState_topic, received, remote_seq, n_faults,
                   cur_state>>
    /\ UNCHANGED <<rd_vars, rc_vars, wr_vars, st_vars, nw_vars>>

LiveNext ==
    \/ CscStart
    \/ ReceiveLiveCommand
    \/ Dispatch
    \/ HandlerResume
    \/ SendAck
    \/ ExitSleep
    \/ wait_and_ack
    \/ AckTask
    \/ AckWrite
    \/ main_returns

SpecLive == Init /\ [][LiveNext]_vars /\ WF_vars(wait_and_ack)

\* The wait_and_ack task of command id is spawned and has not finished.
WaitTaskSleeping(id) == \E w \in wait_tasks : w.id = id

\* C24 as claimed: a wait_and_ack task that was spawned for an accepted
\* wait command eventually enqueues the Complete ack of that command.
C24_WaitAlwaysCompletes ==
    \A id \in 3..MaxLiveCmds :
        WaitTaskSleeping(id) ~> (AckPositions(id, "CmdComplete") # {})

\* C24, amended: a wait_and_ack task that was spawned for an accepted wait
\* command eventually enqueues the Complete ack of that command, whatever
\* state changes the CSC makes in the meantime (disable, fault, standby),
\* unless run() returns and the process exits first.
C24_WaitCompletes ==
    \A id \in 3..MaxLiveCmds :
        WaitTaskSleeping(id) ~>
            (AckPositions(id, "CmdComplete") # {} \/ csc_pc = "exited")

\* start, enable, wait, disable, standby: the CSC went to Disabled and on
\* to Standby while the wait task was sleeping, and the Complete ack of the
\* wait was enqueued after the ack of the standby command.
C24_Witness ==
    /\ Len(dispatch_log) = 5
    /\ dispatch_log[3].cmd.name = "command_wait"
    /\ dispatch_log[3].ack.ack = "CmdInprogress"
    /\ dispatch_log[4].cmd.name = "command_disable"
    /\ dispatch_log[4].after = "Disabled"
    /\ dispatch_log[5].cmd.name = "command_standby"
    /\ dispatch_log[5].after = "Standby"
    /\ summary_state = "Standby"
    /\ wait_tasks = {}
    /\ Len(ack_log) = 6
    /\ ack_log[5] = dispatch_log[5].ack
    /\ ack_log[6] = make_complete(dispatch_log[3].cmd)

\* start, enable, wait, fault, standby: the same through Fault.
C24_WitnessFault ==
    /\ Len(dispatch_log) = 5
    /\ dispatch_log[3].cmd.name = "command_wait"
    /\ dispatch_log[4].cmd.name = "command_fault"
    /\ dispatch_log[4].after = "Fault"
    /\ dispatch_log[5].cmd.name = "command_standby"
    /\ dispatch_log[5].after = "Standby"
    /\ wait_tasks = {}
    /\ Len(ack_log) = 6
    /\ ack_log[5] = dispatch_log[5].ack
    /\ ack_log[6] = make_complete(dispatch_log[3].cmd)

\* C31: at every moment at most one telemetry loop task and at most one
\* heartbeat task are alive.  (TestCSC::start runs once: the heartbeat task
\* and the ack task are single by construction of the model.)
C31_OneTelemetryLoop ==
    /\ telemetry_tasks <= 1
    /\ heartbeat_task \in {"none", "running", "ended"}

\* C38: between commands a telemetry loop is running exactly when the
\* summary state is Disabled or Enabled, and no telemetry iteration runs
\* in another state.
C38_TelemetryWhileDisabledOrEnabled ==
    /\ run_pc = "recv" =>
          (summary_state \in {"Disabled", "Enabled"} <=> telemetry_tasks > 0)
    /\ \A k \in DOMAIN telemetry_log :
          telemetry_log[k].summary_state \in {"Disabled", "Enabled"}

\* The parts of C38: telemetry runs in Disabled and Enabled; none in
\* Standby and Offline.
C38_TelemetryInEnabled ==
    (run_pc = "recv" /\ summary_state \in {"Disabled", "Enabled"}) => telemetry_tasks > 0

C38_NoTelemetryInStandby ==
    \A k \in DOMAIN telemetry_log :
        telemetry_log[k].summary_state \notin {"Standby", "Offline"}

\* C40: a handler call that returned Err is the last handler call of the
\* run loop; the loop has ended with the error and no ack of that command
\* was ever enqueued on the ack channel.
C40_HandlerErrEndsRun ==
    \A i \in DOMAIN dispatch_log :
        LET d == dispatch_log[i] IN
        ~d.ok =>
            /\ i = Len(dispatch_log)
            /\ run_pc = "ended_err"
            /\ pending_ack = NoAckValue
            /\ AcksFor(d.cmd.id) = <<>>
            /\ \A k \in DOMAIN ackcmd_topic :
                  ~(/\ ackcmd_topic[k].private_seqNum = d.cmd.private_seqNum
                    /\ ackcmd_topic[k].origin = d.cmd.private_origin)

\* The summaryState write of an accepted lifecycle command failed; the
\* loop ended with two commands left in the channel and the ack channel
\* drained.
C40_Witness ==
    /\ Len(dispatch_log) = 1
    /\ ~dispatch_log[1].ok
    /\ dispatch_log[1].cmd.parses
    /\ dispatch_log[1].cmd.name = "command_start"
    /\ n_faults = 1
    /\ run_pc = "ended_err"
    /\ Len(command_chan) = 2
    /\ ack_log = <<>>

\* The same for a payload that does not parse, after two commands handled.
C40_WitnessParse ==
    /\ Len(dispatch_log) = 3
    /\ ~dispatch_log[3].ok
    /\ ~dispatch_log[3].cmd.parses
    /\ run_pc = "ended_err"
    /\ Len(ack_log) = 2
    /\ ack_chan = <<>>

\* C37: whenever no handler is running, the summary state in memory is the
\* state carried by the last summaryState event published, also after a
\* publish attempt failed.
C37_StateIsLastEvent ==
    (csc_pc = "started" /\ run_pc \in {"recv", "ended_ok", "ended_err"}) =>
        /\ summaryState_topic # <<>>
        /\ summaryState_topic[Len(summaryState_topic)] = with_summary_state(summary_state)

\* The position on logevent_summaryState of the event the i-th handler
\* call published.
EventIndex(i) == 1 + Cardinality({k \in 1..i : dispatch_log[k].events # <<>>})

\* C36: for every accepted lifecycle command, once its Complete ack is on
\* the ack channel (or handed to the run loop for sending) the summaryState
\* event carrying the new state is published.
C36_EventBeforeComplete ==
    \A i \in DOMAIN dispatch_log :
        LET d == dispatch_log[i] IN
        (/\ IsLifecycle(d.cmd.name)
         /\ d.ok
         /\ d.ack.ack = "CmdComplete") =>
            /\ d.events = <<with_summary_state(d.after)>>
            /\ LET e == EventIndex(i) IN
                  /\ Len(summaryState_topic) >= e
                  /\ summaryState_topic[e] = with_summary_state(d.after)
            /\ \A k \in DOMAIN ack_log :
                  ack_log[k].cmd_id = d.cmd.id => ack_log[k] = d.ack

\* start and enable accepted: the event of enable (2) is published and its
\* Complete ack is not yet on the ack channel.
C36_Witness ==
    /\ Len(dispatch_log) = 2
    /\ dispatch_log[2].cmd.name = "command_enable"
    /\ dispatch_log[2].ack.ack = "CmdComplete"
    /\ summaryState_topic = <<5, 1, 2>>
    /\ run_pc = "send_ack"
    /\ AcksFor(dispatch_log[2].cmd.id) = <<>>
    /\ AcksFor(dispatch_log[1].cmd.id) # <<>>

\* The positions in the ack channel history of the ack the i-th handler
\* call returned.
SyncAckPositions(i) == {k \in DOMAIN ack_log : ack_log[k] = dispatch_log[i].ack}

\* C35: the run loop handles the commands one at a time, in the order they
\* entered the command channel: when a command is handled, the ack returned
\* by the handler call before it is on the ack channel, and its handler
\* starts from the summary state the call before it left.
C35_OneCommandAtATime ==
    /\ Len(dispatch_log) <= Len(received)
    /\ \A i \in DOMAIN dispatch_log :
          /\ dispatch_log[i].cmd = received[i]
          /\ dispatch_log[i].before =
                IF i = 1 THEN "Standby" ELSE dispatch_log[i - 1].after
          /\ i < Len(dispatch_log) =>
                /\ dispatch_log[i].ok
                /\ SyncAckPositions(i) # {}
                /\ \A k \in SyncAckPositions(i), l \in SyncAckPositions(i + 1) : k < l
    /\ (dispatch_log # <<>> /\ run_pc # "write") =>
          summary_state = dispatch_log[Len(dispatch_log)].after
    /\ run_pc = "write" => cur_cmd = received[Len(dispatch_log) + 1]

\* bob's and alice's readers handed over three commands; the second
\* handler has returned and its ack is not yet sent while the third command
\* waits in the channel.
C35_Witness ==
    /\ Len(received) = 3
    /\ received[1].private_origin = RemoteOrigin("bob")
    /\ received[2].private_origin = RemoteOrigin("alice")
    /\ Len(dispatch_log) = 2
    /\ run_pc = "send_ack"
    /\ Len(command_chan) = 1
    /\ SyncAckPositions(1) # {}
    /\ SyncAckPositions(2) = {}

(***************************************************************************)
(* topics/read_topic.rs                                                    *)
(* A decoded message is an Avro Value.  Integer fields keep their Avro     *)
(* type (Int or Long); Absent is a field the record does not have.  `n` is *)
(* a history field: the position of the message on its topic.              *)
(***************************************************************************)
DEFAULT_QUEUE_LEN == 100

MaxMsgs == 3
MaxReads == 3
StreamCap == 2

ValueInt(v) == [t |-> "Int", v |-> v]
ValueLong(v) == [t |-> "Long", v |-> v]
ValueString(s) == [t |-> "String", s |-> s]
\* A field the record does not have: HashMap::get returns None.
Absent == [t |-> "Absent", v |-> 0]

Record(n, salIndex, origin, identity, seqNum, ack, error) ==
    [kind |-> "Record", n |-> n, salIndex |-> salIndex, origin |-> origin,
     identity |-> identity, private_seqNum |-> seqNum, ack |-> ack, error |-> error,
     result |-> "done"]

\* A decoded value that is not a record, and a payload that fails to decode.
NotARecord(n) == [kind |-> "String", n |-> n]
Undecodable(n) == [kind |-> "Undecodable", n |-> n]

\* A plain data record (telemetry, event) with the given salIndex field.
DataRecord(n, salIndex) ==
    Record(n, salIndex, ValueInt(0), ValueString(""), ValueInt(0), ValueInt(0),
           ValueInt(0))

\* The queue is created with VecDeque::with_capacity(DEFAULT_QUEUE_LEN):
\* room reserved for that many elements, no limit on the length.
with_capacity(capacity) == <<>>

\* Mutant of same_index: any record with an Int salIndex passes.
same_index_no_compare(index, data_value) ==
    IF index.some
    THEN IF data_value.kind = "Record"
         THEN data_value.salIndex.t = "Int"
         ELSE FALSE
    ELSE FALSE

same_index(index, data_value) ==
    IF index.some
    THEN IF data_value.kind = "Record"
         THEN IF data_value.salIndex.t = "Int"
              THEN index.v = data_value.salIndex.v
              ELSE FALSE
         ELSE FALSE
    ELSE FALSE

\* One iteration of the loop of pool on the message recv() returned:
\* "err" leaves the loop with Err, "continue" discards the message, "ok"
\* stores it and leaves the loop with Ok(1).
pool_recv(index, queue, current, message) ==
    IF message.kind = "Undecodable"
    THEN [outcome |-> "err", queue |-> queue, current |-> current]
    ELSE IF ~same_index(index, message)
    THEN [outcome |-> "continue", queue |-> queue, current |-> current]
    ELSE [outcome |-> "ok", queue |-> Append(queue, message), current |-> message]

\* VecDeque::pop_front / pop_back: <<value returned, queue left>>.
\* Mutant of vec_pop_front: the front is returned and stays in the queue.
vec_pop_front_keep(queue) ==
    IF queue = <<>> THEN <<NoValue, queue>> ELSE <<Head(queue), queue>>

vec_pop_front(queue) ==
    IF queue = <<>> THEN <<NoValue, queue>> ELSE <<Head(queue), Tail(queue)>>

vec_pop_back(queue) ==
    IF queue = <<>> THEN <<NoValue, queue>>
    ELSE <<queue[Len(queue)], SubSeq(queue, 1, Len(queue) - 1)>>

\* The indexes a reader is built with: None (component not indexed),
\* Some(0), Some(1).
ReaderIndexes == {None, Some(0), Some(1)}

\* What can arrive on the reader's topic: records with salIndex 0, 1, 2 as
\* Avro int, with salIndex 1 as Avro long (what WriteTopic::write stamps),
\* a value that is no record, a payload that does not decode.
Messages(n) ==
    {DataRecord(n, ValueInt(i)) : i \in {0, 1, 2}}
    \cup {DataRecord(n, ValueLong(1)), NotARecord(n), Undecodable(n)}

ReadInit ==
    /\ CscInit
    /\ \E index \in ReaderIndexes : ReaderIdle(index)
    /\ RunIdle
    /\ WriterIdle
    /\ StateIdle
    /\ NewIdle

\* A writer somewhere publishes a message on the reader's topic.
Publish ==
    /\ n_published < MaxMsgs
    /\ Len(stream) < StreamCap
    /\ \E m \in Messages(n_published + 1) : stream' = Append(stream, m)
    /\ n_published' = n_published + 1
    /\ UNCHANGED <<sal_index, data_queue, current_data, rd_pc, rd_op, rd_log>>
    /\ UNCHANGED <<rd_call, rd_elapsed, rd_msg>>
    /\ UNCHANGED <<csc_vars, rc_vars, wr_vars, st_vars, nw_vars, bg_vars>>

flush ==
    /\ rd_pc = "idle"
    /\ data_queue' = <<>>
    /\ UNCHANGED <<sal_index, current_data, stream, rd_pc, rd_op, rd_log, n_published,
                   rd_call, rd_elapsed, rd_msg>>
    /\ UNCHANGED <<csc_vars, rc_vars, wr_vars, st_vars, nw_vars, bg_vars>>

get ==
    /\ rd_pc = "idle"
    /\ Len(rd_log) < MaxReads
    /\ rd_log' = Append(rd_log, Returned("get", current_data, NoCall))
    /\ UNCHANGED <<sal_index, data_queue, current_data, stream, rd_pc, rd_op, n_published,
                   rd_call, rd_elapsed, rd_msg>>
    /\ UNCHANGED <<csc_vars, rc_vars, wr_vars, st_vars, nw_vars, bg_vars>>

\* pop_back up to the first await of pool.
pop_back ==
    /\ rd_pc = "idle"
    /\ Len(rd_log) < MaxReads
    /\ \E do_flush \in BOOLEAN :
         /\ data_queue' = IF do_flush THEN <<>> ELSE data_queue
         /\ rd_call' = Call(do_flush, data_queue)
    /\ rd_pc' = "pool"
    /\ rd_op' = "pop_back"
    /\ UNCHANGED <<sal_index, current_data, stream, rd_log, n_published, rd_elapsed,
                   rd_msg>>
    /\ UNCHANGED <<csc_vars, rc_vars, wr_vars, st_vars, nw_vars, bg_vars>>

\* pop_front: returns at once from a queue that is not empty, else enters pool.
pop_front ==
    /\ rd_pc = "idle"
    /\ Len(rd_log) < MaxReads
    /\ \E do_flush \in BOOLEAN :
         LET queue == IF do_flush THEN <<>> ELSE data_queue IN
         IF queue = <<>>
         THEN /\ data_queue' = queue
              /\ rd_pc' = "pool"
              /\ rd_op' = "pop_front"
              /\ rd_call' = Call(do_flush, data_queue)
              /\ UNCHANGED rd_log
         ELSE /\ data_queue' = vec_pop_front(queue)[2]
              /\ rd_log' = Append(rd_log, Returned("pop_front", vec_pop_front(queue)[1],
                                                    Call(do_flush, data_queue)))
              /\ UNCHANGED <<rd_pc, rd_op, rd_call>>
    /\ UNCHANGED <<sal_index, current_data, stream, n_published, rd_elapsed, rd_msg>>
    /\ UNCHANGED <<csc_vars, rc_vars, wr_vars, st_vars, nw_vars, bg_vars>>

\* pool: consumer.recv() returned a message, which leaves the topic; pool
\* goes on to await decoder.decode on its payload.
pool ==
    /\ rd_pc = "pool"
    /\ stream # <<>>
    /\ rd_msg' = Head(stream)
    /\ stream' = Tail(stream)
    /\ rd_pc' = "decode"
    /\ UNCHANGED <<sal_index, data_queue, current_data, rd_op, rd_log, n_published,
                   rd_call, rd_elapsed>>
    /\ UNCHANGED <<csc_vars, rc_vars, wr_vars, st_vars, nw_vars, bg_vars>>

\* pool: decoder.decode returned, the rest of the iteration runs.
pool_decode ==
    /\ rd_pc = "decode"
    /\ LET r == pool_recv(sal_index, data_queue, current_data, rd_msg) IN
         /\ data_queue' = r.queue
         /\ current_data' = r.current
         /\ rd_pc' = IF r.outcome = "continue" THEN "pool" ELSE "pop"
         /\ rd_call' = IF r.outcome = "continue"
                       THEN [rd_call EXCEPT !.discarded = rd_msg]
                       ELSE [rd_call EXCEPT !.pool = r.outcome]
    /\ rd_msg' = NoValue
    /\ UNCHANGED <<sal_index, stream, rd_op, rd_log, n_published, rd_elapsed>>
    /\ UNCHANGED <<csc_vars, rc_vars, wr_vars, st_vars, nw_vars, bg_vars>>

\* The caller drops the future of pop_front or pop_back while it is
\* suspended in recv() or in decode: the call never returns, and a message
\* taken from the topic and not yet stored is lost.
pool_dropped ==
    /\ rd_pc \in {"pool", "decode"}
    /\ rd_pc' = "idle"
    /\ rd_msg' = NoValue
    /\ rd_call' = NoCall
    /\ rd_elapsed' = FALSE
    /\ UNCHANGED <<sal_index, data_queue, current_data, stream, rd_op, rd_log,
                   n_published>>
    /\ UNCHANGED <<csc_vars, rc_vars, wr_vars, st_vars, nw_vars, bg_vars>>

\* pool: consumer.recv() returned an error.
pool_recv_error ==
    /\ rd_pc = "pool"
    /\ rd_pc' = "pop"
    /\ rd_call' = [rd_call EXCEPT !.pool = "err"]
    /\ UNCHANGED <<sal_index, data_queue, current_data, stream, rd_op, rd_log,
                   n_published, rd_elapsed, rd_msg>>
    /\ UNCHANGED <<csc_vars, rc_vars, wr_vars, st_vars, nw_vars, bg_vars>>

\* The caller's timeout passes while pool waits in recv() with no message
\* to deliver.  pool gave the timeout to fetch_watermarks only, nothing in
\* the loop looks at the time: recv() keeps waiting.
pool_timeout_elapses ==
    /\ rd_pc = "pool"
    /\ stream = <<>>
    /\ ~rd_elapsed
    /\ rd_elapsed' = TRUE
    /\ UNCHANGED <<sal_index, data_queue, current_data, stream, rd_pc, rd_op, rd_log,
                   n_published, rd_call, rd_msg>>
    /\ UNCHANGED <<csc_vars, rc_vars, wr_vars, st_vars, nw_vars, bg_vars>>

\* pop_front / pop_back after pool returned: Ok is traced, Err is logged as
\* a warning, and either way the value is data_queue.pop_front() / pop_back().
pop_return ==
    /\ rd_pc = "pop"
    /\ LET popped == IF rd_op = "pop_front" THEN vec_pop_front(data_queue)
                     ELSE vec_pop_back(data_queue) IN
         /\ data_queue' = popped[2]
         /\ rd_log' = Append(rd_log, Returned(rd_op, popped[1], rd_call))
    /\ rd_pc' = "idle"
    /\ rd_call' = NoCall
    /\ rd_elapsed' = FALSE
    /\ UNCHANGED <<sal_index, current_data, stream, rd_op, n_published, rd_msg>>
    /\ UNCHANGED <<csc_vars, rc_vars, wr_vars, st_vars, nw_vars, bg_vars>>

ReadNext ==
    \/ Publish
    \/ flush
    \/ get
    \/ pop_back
    \/ pop_front
    \/ pool
    \/ pool_decode
    \/ pool_dropped
    \/ pool_recv_error
    \/ pool_timeout_elapses
    \/ pop_return

SpecRead == ReadInit /\ [][ReadNext]_vars

\* A message that carries a salIndex other than i.
OtherIndex(m, i) ==
    /\ m.kind = "Record"
    /\ m.salIndex.t # "Absent"
    /\ m.salIndex.v # i

\* C7: a ReadTopic built with index i # 0 never holds in its queue, never
\* returns from pop_front or pop_back, and never returns from get, a
\* message whose salIndex differs from i.
C7_IndexFilter ==
    (sal_index.some /\ sal_index.v # 0) =>
        /\ \A k \in DOMAIN data_queue : ~OtherIndex(data_queue[k], sal_index.v)
        /\ \A k \in DOMAIN rd_log :
              rd_log[k].value # NoValue => ~OtherIndex(rd_log[k].value, sal_index.v)
        /\ current_data # NoValue => ~OtherIndex(current_data, sal_index.v)

C7_Witness ==
    /\ sal_index = Some(1)
    /\ n_published = 3
    /\ stream = <<>>
    /\ \E k \in DOMAIN rd_log :
          /\ rd_log[k].op = "pop_front"
          /\ rd_log[k].value # NoValue
          /\ rd_log[k].value.salIndex = ValueInt(1)
          /\ rd_log[k].value.n = 3
    /\ \E k \in DOMAIN rd_log : rd_log[k].op = "get" /\ rd_log[k].value # NoValue

\* C17: pop_front (on an empty queue) and pop_back return within the
\* timeout of the caller: once the timeout has passed with no message
\* delivered, the call is no longer waiting in pool and has nothing to give
\* but None.
C17_ReturnWithinTimeout ==
    rd_elapsed => (rd_pc # "pool" /\ data_queue = <<>>)

\* The entries of the history that pop_front wrote.
PopFronts == {k \in DOMAIN rd_log : rd_log[k].op = "pop_front"}

\* The elements of a sequence.
Elements(queue) == {queue[k] : k \in DOMAIN queue}

\* C18: successive pop_front calls return the ingested messages in arrival
\* order, each at most once; pop_front waits in pool only with an empty
\* queue; pop_front(flush=true) never returns a message its flush removed.
C18_PopFrontOrder ==
    /\ \A i, j \in PopFronts :
          (i < j /\ rd_log[i].value # NoValue /\ rd_log[j].value # NoValue) =>
              rd_log[i].value.n < rd_log[j].value.n
    /\ \A i \in PopFronts :
          /\ rd_log[i].value # NoValue => rd_log[i].value.n <= n_published - Len(stream)
          /\ rd_log[i].value \notin Elements(rd_log[i].flushed)
    /\ (rd_pc = "pool" /\ rd_op = "pop_front") => data_queue = <<>>

C18_Witness ==
    /\ sal_index = Some(1)
    /\ Len(rd_log) = 2
    /\ rd_log[1].op = "pop_front" /\ rd_log[1].value # NoValue /\ rd_log[1].value.n = 1
    /\ rd_log[2].op = "pop_front" /\ rd_log[2].value # NoValue /\ rd_log[2].value.n = 3
    /\ rd_pc = "idle"

\* A decoded record whose salIndex is an Avro int.
HasIntIndex(m) == m.kind = "Record" /\ m.salIndex.t = "Int"

\* C19: a reader filters by index only when its index is concrete and not
\* zero: a reader with index 0 discards no message that carries a salIndex,
\* and a reader of a component that is not indexed discards no decoded
\* message.
C19_ReadAllWithoutIndex ==
    /\ sal_index = Some(0) => ~HasIntIndex(rd_call.discarded)
    /\ sal_index = None => rd_call.discarded = NoValue

\* C20: when pool returned an error to pop_front or pop_back (decode error,
\* broker error), the call returns an error, not the None of a poll that
\* found no data.
C20_ErrorsSurface ==
    \A k \in DOMAIN rd_log :
        rd_log[k].pool = "err" => rd_log[k].value.kind = "Err"

\* A message the reader would store: decodable and of the reader's index.
Ingestible(m) == pool_recv(sal_index, <<>>, NoValue, m).outcome = "ok"

\* C34: when the read cycle of a pop_back returns with a message stored,
\* no message the reader would store is left unread on the topic: the
\* message pop_back then returns is the newest one available.
C34_PoolIngestsAll ==
    [][(/\ rd_pc = "decode"
        /\ rd_op = "pop_back"
        /\ rd_pc' = "pop"
        /\ data_queue' # <<>>) =>
           \A i \in DOMAIN stream' : ~Ingestible(stream'[i])]_vars

(***************************************************************************)
(* ReadTopic::new, for the SalInfo values SalInfo::new returns.            *)
(***************************************************************************)
MaxNews == 2
MaxHistory == 3

SalInfoIndexes == {0, 1, 2}

\* SalInfo::new: a component that is not indexed takes index 0 only.
SalInfo_new(indexed, index) ==
    IF index # 0 /\ ~indexed
    THEN [ok |-> FALSE, indexed |-> indexed, index |-> index]
    ELSE [ok |-> TRUE, indexed |-> indexed, index |-> index]

get_optional_index(sal_info) ==
    IF sal_info.indexed THEN Some(sal_info.index) ELSE None

NewPanic == [kind |-> "Panic"]

\* Mutant of ReadTopic_new: max_history > 1 is refused for every index of
\* an indexed component.
ReadTopic_new_any_index(sal_info, max_history) ==
    IF sal_info.indexed /\ max_history > 1
    THEN NewPanic
    ELSE [kind |-> "ReadTopic", sal_index |-> get_optional_index(sal_info),
          max_history |-> max_history,
          data_queue |-> with_capacity(DEFAULT_QUEUE_LEN), current_data |-> NoValue]

ReadTopic_new(sal_info, max_history) ==
    IF sal_info.indexed /\ sal_info.index = 0 /\ max_history > 1
    THEN NewPanic
    ELSE [kind |-> "ReadTopic", sal_index |-> get_optional_index(sal_info),
          max_history |-> max_history,
          data_queue |-> with_capacity(DEFAULT_QUEUE_LEN), current_data |-> NoValue]

NewInit ==
    /\ CscInit
    /\ ReaderIdle(Some(CscIndex))
    /\ RunIdle
    /\ WriterIdle
    /\ StateIdle
    /\ NewIdle

\* A ReadTopic is constructed for a SalInfo that SalInfo::new returned.
NewReadTopic ==
    /\ Len(new_log) < MaxNews
    /\ \E indexed \in BOOLEAN, index \in SalInfoIndexes, max_history \in 0..MaxHistory :
         LET sal_info == SalInfo_new(indexed, index) IN
         /\ sal_info.ok
         /\ new_log' = Append(new_log, [sal_info |-> sal_info,
                                        max_history |-> max_history,
                                        result |-> ReadTopic_new(sal_info, max_history)])
    /\ UNCHANGED <<csc_vars, rd_vars, rc_vars, wr_vars, st_vars, bg_vars>>

NewNext == NewReadTopic

SpecNew == NewInit /\ [][NewNext]_vars

\* C21: constructing a ReadTopic for an indexed component with index 0
\* panics for every max_history > 1 and succeeds for max_history 0 and 1;
\* for an index other than 0 it succeeds for every max_history.
C21_MaxHistoryRefused ==
    \A k \in DOMAIN new_log :
        LET e == new_log[k] IN
        /\ (e.sal_info.indexed /\ e.sal_info.index = 0) =>
              IF e.max_history > 1 THEN e.result = NewPanic
              ELSE e.result.kind = "ReadTopic" /\ e.result.max_history = e.max_history
        /\ e.sal_info.index # 0 =>
              e.result.kind = "ReadTopic" /\ e.result.max_history = e.max_history

C21_Witness ==
    /\ Len(new_log) = 2
    /\ new_log[1].sal_info = SalInfo_new(TRUE, 0)
    /\ new_log[1].max_history = 2
    /\ new_log[1].result = NewPanic
    /\ new_log[2].sal_info = SalInfo_new(TRUE, 1)
    /\ new_log[2].max_history = 3
    /\ new_log[2].result.kind = "ReadTopic"

(***************************************************************************)
(* topics/remote_command.rs: RemoteCommand::run and run_typed.             *)
(* The remote is alice; its ack reader is a ReadTopic on ackcmd built with *)
(* the index of the component.                                             *)
(***************************************************************************)
MaxFrames == 2

RunOrigin == RemoteOrigin("alice")
RunIdentity == RemoteIdentity("alice")

\* Sequence numbers the command write can return: any i32, here 0 and the
\* first number of the writer.
RunSeqNums == {0, InitialSeqNum}

\* Mutant of get_ackcmd_code: 302 (Stalled) is not recognised.
get_ackcmd_code_no_stalled(ackcmd) ==
    IF ackcmd.t # "Int" THEN "CmdAck"
    ELSE CASE ackcmd.v = 300     -> "CmdAck"
           [] ackcmd.v = 301     -> "CmdInprogress"
           [] ackcmd.v = 303     -> "CmdComplete"
           [] ackcmd.v = 0 - 300 -> "CmdNoperm"
           [] ackcmd.v = 0 - 301 -> "CmdNoack"
           [] ackcmd.v = 0 - 302 -> "CmdFailed"
           [] ackcmd.v = 0 - 303 -> "CmdAborted"
           [] ackcmd.v = 0 - 304 -> "CmdTimeout"
           [] OTHER              -> "CmdAck"

\* sal_enums::get_ackcmd_code: anything but a known Value::Int is CmdAck.
get_ackcmd_code(ackcmd) ==
    IF ackcmd.t # "Int" THEN "CmdAck"
    ELSE CASE ackcmd.v = 300     -> "CmdAck"
           [] ackcmd.v = 301     -> "CmdInprogress"
           [] ackcmd.v = 302     -> "CmdStalled"
           [] ackcmd.v = 303     -> "CmdComplete"
           [] ackcmd.v = 0 - 300 -> "CmdNoperm"
           [] ackcmd.v = 0 - 301 -> "CmdNoack"
           [] ackcmd.v = 0 - 302 -> "CmdFailed"
           [] ackcmd.v = 0 - 303 -> "CmdAborted"
           [] ackcmd.v = 0 - 304 -> "CmdTimeout"
           [] OTHER              -> "CmdAck"

\* CommandAck::new
CommandAck_new(ack, error, result, identity, origin, timeout, seq_num) ==
    [ack |-> ack, error |-> error, result |-> result, identity |-> identity,
     origin |-> origin, cmdtype |-> 0, timeout |-> timeout, seq_num |-> seq_num]

\* CommandAck::invalid_command: every field but result is the Default.
invalid_command(result) ==
    [ack |-> "CmdAck", error |-> 0, result |-> result, identity |-> "",
     origin |-> 0, cmdtype |-> 0, timeout |-> 0, seq_num |-> 0]

\* The ack synthesized when pop_back returns no record.
no_ack_seen(identity, origin, timeout, seq_num) ==
    CommandAck_new("CmdNoack", 0 - 1, "No acknowledgment seen.", identity, origin,
                   timeout, seq_num)

\* Option::unwrap_or on the value HashMap::get returned.
unwrap_or(value, default) == IF value = Absent THEN default ELSE value

\* The test run applies to a record popped from the ack reader: a field
\* the record lacks is taken as Value::Int(0) (origin, private_seqNum) or
\* as the empty string (identity).
ack_matches(data_dict, origin, identity, seq_num) ==
    /\ unwrap_or(data_dict.origin, ValueInt(0)) = ValueInt(origin)
    /\ unwrap_or(data_dict.identity, ValueString("")) = ValueString(identity)
    /\ unwrap_or(data_dict.private_seqNum, ValueInt(0)) = ValueInt(seq_num)

\* The error field: run reads a Value::Long, run_typed a Value::Int; any
\* other value gives 0.
ack_error(variant, data_dict) ==
    IF variant = "run"
    THEN (IF data_dict.error.t = "Long" THEN data_dict.error.v ELSE 0)
    ELSE (IF data_dict.error.t = "Int" THEN data_dict.error.v ELSE 0)

\* One turn of the loop of run on the value pop_back returned:
\* [done, ok, ack, frame].
run_on_ack(variant, wait_done, timeout, seq_num, popped) ==
    IF popped.kind = "Record"
    THEN IF ack_matches(popped, RunOrigin, RunIdentity, seq_num)
         THEN LET command_ack ==
                      CommandAck_new(get_ackcmd_code(popped.ack),
                                     ack_error(variant, popped), popped.result,
                                     RunIdentity, RunOrigin, timeout, seq_num)
              IN IF ~wait_done
                 THEN [done |-> TRUE, ok |-> TRUE, ack |-> command_ack, frame |-> popped]
                 ELSE IF is_ack_final(command_ack.ack)
                 THEN [done |-> TRUE, ok |-> is_ack_good(command_ack.ack),
                       ack |-> command_ack, frame |-> popped]
                 ELSE [done |-> FALSE, ok |-> FALSE, ack |-> NoAckValue, frame |-> NoValue]
         ELSE [done |-> FALSE, ok |-> FALSE, ack |-> NoAckValue, frame |-> NoValue]
    ELSE [done |-> TRUE, ok |-> FALSE,
          ack |-> no_ack_seen(RunIdentity, RunOrigin, timeout, seq_num),
          frame |-> NoValue]

\* The timeout argument of run, in seconds.
RunTimeout == 5

\* The acks a frame can carry: every code of the enumeration, an integer
\* outside it, and a known number of the wrong Avro type.
AckValues ==
    {ValueInt(get_ack(c)) : c \in SalRetCode} \cup {ValueInt(999), ValueLong(303)}

AckFrame(n, origin, identity, seqNum, ack, error) ==
    Record(n, ValueInt(CscIndex), origin, identity, seqNum, ack, error)

\* What can arrive on ackcmd: acks to the writer's first sequence number
\* with every ack value, acks to sequence number 0, acks to other remotes
\* and other commands, acks that lack one of the three fields run compares,
\* an ack of another index of the component, an undecodable payload.
AckFrames(n) ==
    {AckFrame(n, ValueInt(RunOrigin), ValueString(RunIdentity), ValueInt(InitialSeqNum),
              a, ValueInt(1)) : a \in AckValues}
    \cup
    {AckFrame(n, ValueInt(RunOrigin), ValueString(RunIdentity), ValueInt(0), a,
              ValueLong(1)) : a \in {ValueInt(301), ValueInt(303), ValueInt(0 - 302)}}
    \cup
    {AckFrame(n, ValueInt(RemoteOrigin("bob")), ValueString(RunIdentity),
              ValueInt(InitialSeqNum), ValueInt(303), ValueInt(0)),
     AckFrame(n, ValueInt(RunOrigin), ValueString(RemoteIdentity("bob")),
              ValueInt(InitialSeqNum), ValueInt(303), ValueInt(0)),
     AckFrame(n, ValueInt(RunOrigin), ValueString(RunIdentity),
              ValueInt(InitialSeqNum + 1), ValueInt(303), ValueInt(0)),
     AckFrame(n, ValueInt(RunOrigin), ValueString(RunIdentity), ValueLong(InitialSeqNum),
              ValueInt(303), ValueInt(0)),
     AckFrame(n, ValueInt(RunOrigin), ValueString(RunIdentity), Absent, ValueInt(303),
              ValueInt(0)),
     AckFrame(n, Absent, ValueString(RunIdentity), ValueInt(InitialSeqNum),
              ValueInt(303), ValueInt(0)),
     AckFrame(n, ValueInt(RunOrigin), Absent, ValueInt(InitialSeqNum), ValueInt(303),
              ValueInt(0)),
     Record(n, ValueInt(CscIndex + 1), ValueInt(RunOrigin), ValueString(RunIdentity),
            ValueInt(InitialSeqNum), ValueInt(303), ValueInt(0)),
     Undecodable(n)}

RunInit ==
    /\ CscInit
    /\ ReaderIdle(Some(CscIndex))
    /\ RunIdle
    /\ WriterIdle
    /\ StateIdle
    /\ NewIdle

\* The CSC (or anyone else) publishes a record on ackcmd.
PublishAck ==
    /\ n_published < MaxFrames
    /\ stream = <<>>
    /\ \E f \in AckFrames(0) : stream' = <<f>>
    /\ n_published' = n_published + 1
    /\ UNCHANGED <<sal_index, data_queue, current_data, rd_pc, rd_op, rd_log>>
    /\ UNCHANGED <<rd_call, rd_elapsed, rd_msg>>
    /\ UNCHANGED <<csc_vars, rc_vars, wr_vars, st_vars, nw_vars, bg_vars>>

\* run / run_typed up to the await of the command write: the ack reader is
\* flushed.  (The caller, run_command or run_command_typed, says what
\* becomes of rc_call.)
run(variant) ==
    /\ rc_pc = "idle"
    /\ rc_variant' = variant
    /\ \E wait_done \in BOOLEAN : rc_wait_done' = wait_done
    /\ data_queue' = <<>>
    /\ rc_pc' = "write"
    /\ UNCHANGED <<rc_seq, rc_result, rc_frame, rc_read, rc_elapsed>>
    /\ UNCHANGED <<sal_index, current_data, stream, rd_pc, rd_op, rd_log, n_published>>
    /\ UNCHANGED <<rd_call, rd_elapsed, rd_msg>>
    /\ UNCHANGED <<csc_vars, wr_vars, st_vars, nw_vars, bg_vars>>

\* The command write returns: Ok(seq_num), and run enters its loop with
\* the first pop_back, or an error, which run turns into an invalid-command
\* ack carrying error.to_string().
run_write ==
    /\ rc_pc = "write"
    /\ \/ \E seq_num \in RunSeqNums :
            /\ rc_seq' = seq_num
            /\ rc_pc' = "wait_ack"
            /\ rd_pc' = "pool"
            /\ rd_op' = "pop_back"
            /\ UNCHANGED rc_result
       \/ /\ rc_pc' = "done"
          /\ rc_result' = [ok |-> FALSE,
                           ack |-> invalid_command(SalObjError_to_string("write error"))]
          /\ UNCHANGED <<rc_seq, rd_pc, rd_op>>
    /\ UNCHANGED <<rc_variant, rc_wait_done, rc_frame, rc_read, rc_elapsed, rc_call>>
    /\ UNCHANGED <<sal_index, data_queue, current_data, stream, rd_log, n_published>>
    /\ UNCHANGED <<rd_call, rd_elapsed, rd_msg>>
    /\ UNCHANGED <<csc_vars, wr_vars, st_vars, nw_vars, bg_vars>>

\* A topic name: its prefix and the rest.
TopicName(prefix, rest) == <<prefix, rest>>

TopicString(topic_name) == topic_name[1] \o topic_name[2]

\* SalInfo::is_command: topic_name.starts_with("command_").
is_command(topic_name) == topic_name[1] = "command_"

\* sal_info.get_command_names() of the component the Remote talks to.
get_command_names == {TopicName("command_", "wait")}

\* The keys of Remote.commands as Remote::new fills it.
Remote_commands(readonly) == IF readonly THEN {} ELSE get_command_names

\* The names run_command is called with: a command of the component, a
\* name with the command prefix that is none, and the name of an event.
RunCommandNames ==
    {TopicName("command_", "wait"), TopicName("command_", "bogus"),
     TopicName("logevent_", "heartbeat")}

\* Mutant of run_command_check: a read-only Remote runs the command.
run_command_check_no_lookup(command_name, readonly) ==
    IF ~is_command(command_name)
    THEN [ok |-> FALSE,
          ack |-> invalid_command("Invalid command name " \o TopicString(command_name)
                                  \o ".")]
    ELSE [ok |-> TRUE, ack |-> NoAckValue]

\* Remote::run_command before it calls RemoteCommand::run: Err with the
\* invalid-command ack it returns, or ok to run.
run_command_check(command_name, readonly) ==
    IF ~is_command(command_name)
    THEN [ok |-> FALSE,
          ack |-> invalid_command("Invalid command name " \o TopicString(command_name)
                                  \o ".")]
    ELSE IF command_name \in Remote_commands(readonly)
    THEN [ok |-> TRUE, ack |-> NoAckValue]
    ELSE [ok |-> FALSE,
          ack |-> invalid_command("Command " \o TopicString(command_name)
                                  \o " not in the list of commands.")]

\* Remote::run_command_typed before it calls RemoteCommand::run_typed: the
\* name is looked up in Remote.commands only.
run_command_typed_check(command_name, readonly) ==
    IF command_name \in Remote_commands(readonly)
    THEN [ok |-> TRUE, ack |-> NoAckValue]
    ELSE [ok |-> FALSE,
          ack |-> invalid_command("Command " \o TopicString(command_name)
                                  \o " not in the list of commands.")]

\* Remote::run_command: the name is checked and looked up, then
\* RemoteCommand::run is awaited.
run_command ==
    /\ rc_pc = "idle"
    /\ \E command_name \in RunCommandNames, readonly \in BOOLEAN :
         LET check == run_command_check(command_name, readonly) IN
         /\ rc_call' = [command_name |-> command_name, readonly |-> readonly,
                        typed |-> FALSE]
         /\ IF check.ok
            THEN run("run")
            ELSE /\ rc_pc' = "done"
                 /\ rc_result' = [ok |-> FALSE, ack |-> check.ack]
                 /\ UNCHANGED <<rc_variant, rc_wait_done, rc_seq, rc_frame, rc_read,
                                rc_elapsed>>
                 /\ UNCHANGED <<csc_vars, rd_vars, wr_vars, st_vars, nw_vars, bg_vars>>

\* Remote::run_command_typed: the name is looked up, then
\* RemoteCommand::run_typed is awaited.
run_command_typed ==
    /\ rc_pc = "idle"
    /\ \E command_name \in RunCommandNames, readonly \in BOOLEAN :
         LET check == run_command_typed_check(command_name, readonly) IN
         /\ rc_call' = [command_name |-> command_name, readonly |-> readonly,
                        typed |-> TRUE]
         /\ IF check.ok
            THEN run("run_typed")
            ELSE /\ rc_pc' = "done"
                 /\ rc_result' = [ok |-> FALSE, ack |-> check.ack]
                 /\ UNCHANGED <<rc_variant, rc_wait_done, rc_seq, rc_frame, rc_read,
                                rc_elapsed>>
                 /\ UNCHANGED <<csc_vars, rd_vars, wr_vars, st_vars, nw_vars, bg_vars>>

\* run inside pop_back(false, timeout): recv() returned a message.  When
\* decoder.decode returned: the rest of pool's iteration runs; when pool
\* leaves its loop pop_back returns and run takes one turn of its loop, up
\* to its return or to the next pop_back.
run_pop_back ==
    /\ rc_pc = "wait_ack"
    /\ rd_pc = "decode"
    /\ rd_msg' = NoValue
    /\ LET r == pool_recv(sal_index, data_queue, current_data, rd_msg) IN
       IF r.outcome = "continue"
       THEN /\ rd_pc' = "pool"
            /\ UNCHANGED <<data_queue, current_data, rd_op, rc_vars>>
       ELSE LET popped == vec_pop_back(r.queue)
                turn == run_on_ack(rc_variant, rc_wait_done, RunTimeout, rc_seq,
                                   popped[1])
            IN /\ data_queue' = popped[2]
               /\ current_data' = r.current
               /\ rc_read' = IF popped[1] = NoValue THEN rc_read
                             ELSE Append(rc_read, popped[1])
               /\ rc_pc' = IF turn.done THEN "done" ELSE "wait_ack"
               /\ rd_pc' = IF turn.done THEN "idle" ELSE "pool"
               /\ rc_result' = IF turn.done THEN [ok |-> turn.ok, ack |-> turn.ack]
                               ELSE rc_result
               /\ rc_frame' = turn.frame
               /\ UNCHANGED <<rd_op, rc_variant, rc_wait_done, rc_seq, rc_elapsed, rc_call>>
    /\ UNCHANGED <<sal_index, stream, rd_log, n_published>>
    /\ UNCHANGED <<rd_call, rd_elapsed>>
    /\ UNCHANGED <<csc_vars, wr_vars, st_vars, nw_vars, bg_vars>>

\* run inside pop_back: recv() returned an error, pool returns Err,
\* pop_back pops the (empty) queue.
run_recv_error ==
    /\ rc_pc = "wait_ack"
    /\ rd_pc = "pool"
    /\ LET popped == vec_pop_back(data_queue)
           turn == run_on_ack(rc_variant, rc_wait_done, RunTimeout, rc_seq, popped[1])
       IN /\ data_queue' = popped[2]
          /\ rc_pc' = IF turn.done THEN "done" ELSE "wait_ack"
          /\ rd_pc' = IF turn.done THEN "idle" ELSE "pool"
          /\ rc_result' = IF turn.done THEN [ok |-> turn.ok, ack |-> turn.ack]
                          ELSE rc_result
          /\ rc_frame' = turn.frame
    /\ UNCHANGED <<rc_variant, rc_wait_done, rc_seq, rc_read, rc_elapsed, rc_call>>
    /\ UNCHANGED <<sal_index, current_data, stream, rd_op, rd_log, n_published>>
    /\ UNCHANGED <<rd_call, rd_elapsed, rd_msg>>
    /\ UNCHANGED <<csc_vars, wr_vars, st_vars, nw_vars, bg_vars>>

\* The caller drops the future of run while it is suspended: in the
\* command write, or inside pop_back in recv() or in decode.  run never
\* returns, and a frame taken from ackcmd and not yet stored is lost.
run_dropped ==
    /\ rc_pc \in {"write", "wait_ack"}
    /\ rc_pc' = "dropped"
    /\ rd_pc' = "idle"
    /\ rd_msg' = NoValue
    /\ UNCHANGED <<rc_variant, rc_wait_done, rc_seq, rc_result, rc_frame, rc_read,
                   rc_elapsed, rc_call>>
    /\ UNCHANGED <<sal_index, data_queue, current_data, stream, rd_op, rd_log,
                   n_published, rd_call, rd_elapsed>>
    /\ UNCHANGED <<csc_vars, wr_vars, st_vars, nw_vars, bg_vars>>

\* `timeout` passes while pool waits in recv() with no message to deliver.
\* pool gave the timeout to fetch_watermarks only: recv() keeps waiting.
TimeoutElapses ==
    /\ rc_pc = "wait_ack"
    /\ rd_pc = "pool"
    /\ stream = <<>>
    /\ ~rc_elapsed
    /\ rc_elapsed' = TRUE
    /\ UNCHANGED <<rc_pc, rc_variant, rc_wait_done, rc_seq, rc_result, rc_frame, rc_read,
                   rc_call>>
    /\ UNCHANGED <<csc_vars, rd_vars, wr_vars, st_vars, nw_vars, bg_vars>>

RunNext ==
    \/ PublishAck
    \/ run_command
    \/ run_command_typed
    \/ run_write
    \/ pool
    \/ run_pop_back
    \/ run_recv_error
    \/ run_dropped
    \/ TimeoutElapses

SpecRun == RunInit /\ [][RunNext]_vars

\* The frame answers the command run wrote: it carries the origin, the
\* identity and the sequence number of the command.
FrameMatches(f) ==
    /\ f.origin = ValueInt(RunOrigin)
    /\ f.identity = ValueString(RunIdentity)
    /\ f.private_seqNum = ValueInt(rc_seq)

\* run returned on the i-th frame it read.
ResolvedOn(i) ==
    /\ i = Len(rc_read)
    /\ rc_pc = "done"
    /\ rc_frame = rc_read[i]

\* C4: run and run_typed return only on an ack frame whose origin, identity
\* and private_seqNum are those of the command just written; any other
\* frame read while waiting is discarded and does not determine the result.
C4_ResolveOnMatchOnly ==
    /\ rc_frame # NoValue =>
          /\ rc_pc = "done"
          /\ rc_read # <<>>
          /\ ResolvedOn(Len(rc_read))
          /\ FrameMatches(rc_frame)
          /\ rc_result.ack.seq_num = rc_seq
          /\ rc_result.ack.origin = RunOrigin
          /\ rc_result.ack.identity = RunIdentity
    /\ \A i \in DOMAIN rc_read : ~FrameMatches(rc_read[i]) => ~ResolvedOn(i)
    /\ (rc_pc = "done" /\ rc_frame = NoValue) =>
          ~rc_result.ok /\ rc_result.ack.ack \in {"CmdNoack", "CmdAck"}

\* The field has the wanted value, or the frame lacks it and the wanted
\* value is the one run reads a lacking field as.
FieldIs(value, wanted, read_as) == value = wanted \/ (value = Absent /\ wanted = read_as)

\* The frames run takes as answers to its command: the matching frames and
\* the frames lacking a field that run reads as the command's value.
TakenAsMatching(f) ==
    /\ FieldIs(f.origin, ValueInt(RunOrigin), ValueInt(0))
    /\ FieldIs(f.identity, ValueString(RunIdentity), ValueString(""))
    /\ FieldIs(f.private_seqNum, ValueInt(rc_seq), ValueInt(0))

\* The ack value is the Avro int of a code of the enumeration.
CarriesCode(f) == f.ack.t = "Int" /\ f.ack.v \in {get_ack(c) : c \in SalRetCode}

\* The ack code of a frame; an ack value that is no code of the
\* enumeration is read as Ack.
CodeOfFrame(f) ==
    IF CarriesCode(f)
    THEN CHOOSE c \in SalRetCode : get_ack(c) = f.ack.v
    ELSE "CmdAck"

\* C5: on a matching frame, with wait_done false run returns Ok(ack) at
\* once whatever the code; with wait_done true it keeps waiting across Ack
\* and InProgress and returns on the first final ack, Ok for Complete and
\* Err for Aborted, Failed, NoAck, NoPerm, Stalled and Timeout.  Stated
\* for every frame run takes as matching and every ack value.
C5_WaitDone ==
    \A i \in DOMAIN rc_read :
        LET f == rc_read[i] IN
        TakenAsMatching(f) =>
            IF ~rc_wait_done
            THEN ResolvedOn(i) /\ rc_result.ok /\ rc_result.ack.ack = CodeOfFrame(f)
            ELSE IF CodeOfFrame(f) \in {"CmdAck", "CmdInprogress"}
            THEN ~ResolvedOn(i)
            ELSE /\ ResolvedOn(i)
                 /\ rc_result.ack.ack = CodeOfFrame(f)
                 /\ rc_result.ok = (CodeOfFrame(f) = "CmdComplete")

\* With wait_done, run read InProgress for its command and went on, and
\* returned Err on Stalled.
C5_Witness ==
    /\ rc_wait_done
    /\ Len(rc_read) = 2
    /\ FrameMatches(rc_read[1]) /\ rc_read[1].ack = ValueInt(301)
    /\ ~ResolvedOn(1)
    /\ ResolvedOn(2)
    /\ FrameMatches(rc_read[2]) /\ rc_read[2].ack = ValueInt(302)
    /\ ~rc_result.ok
    /\ rc_result.ack.ack = "CmdStalled"

\* C6: when the timeout has passed with no ack frame delivered, run has
\* returned Err with the synthesized ack: NoAck, error -1, result
\* "No acknowledgment seen.", the sequence number of the command.
C6_NoAckOnTimeout ==
    rc_elapsed =>
        /\ rc_pc = "done"
        /\ ~rc_result.ok
        /\ rc_result.ack.ack = "CmdNoack"
        /\ rc_result.ack.error = 0 - 1
        /\ rc_result.ack.result = "No acknowledgment seen."
        /\ rc_result.ack.seq_num = rc_seq

\* C29: run_command called with a name that is not a command of the
\* component, or on a Remote built read-only, returns Err with an
\* invalid-command ack (every field but the result at its default); no
\* command is written (no sequence number is taken) and the ack reader is
\* neither flushed nor read.
C29_InvalidCommandRejected ==
    (/\ rc_call # NoRunCall
     /\ (rc_call.command_name \notin get_command_names \/ rc_call.readonly)) =>
        /\ rc_pc = "done"
        /\ ~rc_result.ok
        /\ rc_result.ack = invalid_command(rc_result.ack.result)
        /\ rc_result.ack.result # SalObjError_to_string("write error")
        /\ rc_seq = NoSeqNum
        /\ rc_read = <<>>
        /\ rd_pc = "idle" /\ rd_op = "none"
        /\ n_published = Len(stream)
        /\ wr_published = <<>>

C29_Witness ==
    /\ rc_call = [command_name |-> TopicName("command_", "wait"), readonly |-> TRUE,
                  typed |-> FALSE]
    /\ rc_pc = "done"
    /\ rc_result.ack.result = "Command command_wait not in the list of commands."
    /\ stream # <<>>

\* run returned the ack it synthesizes when pop_back gives no record.
SynthesizedNoAck ==
    /\ rc_pc = "done"
    /\ rc_frame = NoValue
    /\ rc_result.ack.ack = "CmdNoack"

\* C33: run returns the synthesized NoAck only when a wait for the next
\* ack frame has elapsed with no frame, and a wait that elapsed with no
\* frame ends the run with it.
C33_NoAckOnlyOnElapsedWait ==
    /\ SynthesizedNoAck => rc_elapsed
    /\ rc_elapsed => SynthesizedNoAck

\* The parts of C33.
C33_NoAckImpliesElapsed == SynthesizedNoAck => rc_elapsed

C33_ElapsedImpliesNoAck == rc_elapsed => SynthesizedNoAck

\* C39: when run, run_typed or run_command has returned Err the ack it
\* carries has a code that is not good, and when it has returned Ok with
\* wait_done the code is Complete.
C39_ErrIsNotGood ==
    rc_pc = "done" =>
        /\ ~rc_result.ok => ~is_ack_good(rc_result.ack.ack)
        /\ (rc_result.ok /\ rc_wait_done) => rc_result.ack.ack = "CmdComplete"

\* The second part of C39 on its own.
C39_OkIsComplete ==
    (rc_pc = "done" /\ rc_result.ok /\ rc_wait_done) => rc_result.ack.ack = "CmdComplete"

(***************************************************************************)
(* topics/write_topic.rs: WriteTopic.                                      *)
(***************************************************************************)
MaxWrites == 3

\* The payloads a caller sets.
Payloads == {[kind |-> "Record", value |-> v] : v \in {"a", "b", "c"}}

is_open == wr_producer

has_data == wr_data # NoValue

\* The record write hands to the producer: the data with the private
\* fields stamped.  private_seqNum is the constant Value::Long(0).
stamped(data) ==
    [payload |-> data, private_origin |-> ValueLong(CscOrigin),
     private_identity |-> CscIdentity, private_seqNum |-> ValueLong(0),
     salIndex |-> ValueLong(CscIndex)]

WriteInit ==
    /\ CscInit
    /\ ReaderIdle(Some(CscIndex))
    /\ RunIdle
    /\ WriterIdle
    /\ StateIdle
    /\ NewIdle

\* The methods take &mut self: none starts while a write awaits the encoder.
set_producer ==
    /\ wr_pc = "idle"
    /\ wr_producer' = TRUE
    /\ UNCHANGED <<wr_data, wr_data_changed, wr_published, wr_ret, wr_pc>>
    /\ UNCHANGED <<csc_vars, rd_vars, rc_vars, st_vars, nw_vars, bg_vars>>

basic_close ==
    /\ wr_pc = "idle"
    /\ wr_producer' = IF is_open THEN FALSE ELSE wr_producer
    /\ UNCHANGED <<wr_data, wr_data_changed, wr_published, wr_ret, wr_pc>>
    /\ UNCHANGED <<csc_vars, rd_vars, rc_vars, st_vars, nw_vars, bg_vars>>

set ==
    /\ wr_pc = "idle"
    /\ \E data \in Payloads : wr_data' = data
    /\ wr_data_changed' = TRUE
    /\ UNCHANGED <<wr_producer, wr_published, wr_ret, wr_pc>>
    /\ UNCHANGED <<csc_vars, rd_vars, rc_vars, st_vars, nw_vars, bg_vars>>

\* write up to its return of false (closed, or no data) or to the await of
\* encoder.encode: the private fields are stamped and data_changed is
\* cleared before it.
write ==
    /\ wr_pc = "idle"
    /\ Len(wr_ret) < MaxWrites
    /\ IF ~is_open \/ ~has_data
       THEN /\ wr_ret' = Append(wr_ret, FALSE)
            /\ UNCHANGED <<wr_data_changed, wr_pc>>
       ELSE /\ wr_data_changed' = FALSE
            /\ wr_pc' = "write"
            /\ UNCHANGED wr_ret
    /\ UNCHANGED <<wr_producer, wr_data, wr_published>>
    /\ UNCHANGED <<csc_vars, rd_vars, rc_vars, st_vars, nw_vars, bg_vars>>

\* set_write: set, then write up to its return or to the await of the
\* encoder; when write returned, the data is reset.
set_write ==
    /\ wr_pc = "idle"
    /\ Len(wr_ret) < MaxWrites
    /\ IF ~is_open
       THEN /\ wr_ret' = Append(wr_ret, FALSE)
            /\ wr_data_changed' = TRUE
            /\ wr_data' = NoValue
            /\ UNCHANGED wr_pc
       ELSE /\ \E data \in Payloads : wr_data' = data
            /\ wr_data_changed' = FALSE
            /\ wr_pc' = "set_write"
            /\ UNCHANGED wr_ret
    /\ UNCHANGED <<wr_producer, wr_published>>
    /\ UNCHANGED <<csc_vars, rd_vars, rc_vars, st_vars, nw_vars, bg_vars>>

\* encoder.encode(..).await returns and the bytes go to the producer:
\* write returns true (and set_write resets the data).  Both results are
\* unwrapped: an error of the encoder or of the producer panics, leaving
\* the writer as it is.
write_encoded ==
    /\ wr_pc \in {"write", "set_write"}
    /\ \E outcome \in {"sent", "encode_err", "send_err"} :
         IF outcome = "sent"
         THEN /\ wr_published' = Append(wr_published, stamped(wr_data))
              /\ wr_ret' = Append(wr_ret, TRUE)
              /\ wr_data_changed' = (wr_pc = "set_write")
              /\ wr_data' = IF wr_pc = "set_write" THEN NoValue ELSE wr_data
              /\ wr_pc' = "idle"
         ELSE /\ wr_pc' = "panicked"
              /\ UNCHANGED <<wr_published, wr_ret, wr_data_changed, wr_data>>
    /\ UNCHANGED wr_producer
    /\ UNCHANGED <<csc_vars, rd_vars, rc_vars, st_vars, nw_vars, bg_vars>>

\* The caller drops the future of write or set_write at the await of the
\* encoder: nothing is published and nothing after the await runs.
write_dropped ==
    /\ wr_pc \in {"write", "set_write"}
    /\ wr_pc' = "idle"
    /\ UNCHANGED <<wr_producer, wr_data, wr_data_changed, wr_published, wr_ret>>
    /\ UNCHANGED <<csc_vars, rd_vars, rc_vars, st_vars, nw_vars, bg_vars>>

WriteNext ==
    \/ set_producer
    \/ basic_close
    \/ set
    \/ write
    \/ set_write
    \/ write_encoded
    \/ write_dropped

SpecWrite == WriteInit /\ [][WriteNext]_vars

\* C9: each record a WriteTopic publishes carries a private_seqNum greater
\* than that of the record it published before.
C9_SeqNumIncreasing ==
    \A k \in DOMAIN wr_published :
        k > 1 => wr_published[k].private_seqNum.v > wr_published[k - 1].private_seqNum.v

(***************************************************************************)
(* csc/summary_state.rs: the pure transition functions of State, and       *)
(* utils/csc.rs: compute_state_transitions.                                *)
(***************************************************************************)
MaxCalls == 3

StateOk(new_state) == [ok |-> TRUE, state |-> new_state, error |-> ""]

StateErr(self, target) ==
    [ok |-> FALSE, state |-> self,
     error |-> "Cannot perform state transition " \o self \o " -> " \o target]

start(self) ==
    IF self = "Standby" THEN StateOk("Disabled") ELSE StateErr(self, "Disable")

enable(self) ==
    IF self = "Disabled" THEN StateOk("Enabled") ELSE StateErr(self, "Enabled")

disable(self) ==
    IF self = "Enabled" THEN StateOk("Disabled") ELSE StateErr(self, "Disabled")

standby(self) ==
    IF self = "Disabled" \/ self = "Fault"
    THEN StateOk("Standby") ELSE StateErr(self, "Standby")

enter_control(self) ==
    IF self = "Standby" THEN StateOk("Offline") ELSE StateErr(self, "Offline")

exit_control(self) ==
    IF self = "Offline" THEN StateOk("Standby") ELSE StateErr(self, "Standby")

StateFns == {"start", "enable", "disable", "standby", "enter_control", "exit_control"}

\* self.<fn>()
state_fn(fn, self) ==
    CASE fn = "start"         -> start(self)
      [] fn = "enable"        -> enable(self)
      [] fn = "disable"       -> disable(self)
      [] fn = "standby"       -> standby(self)
      [] fn = "enter_control" -> enter_control(self)
      [] fn = "exit_control"  -> exit_control(self)

\* compute_state_transitions -----------------------------------------------
ordered_states == <<"Offline", "Standby", "Disabled", "Enabled">>

\* ordered_states.iter().position(..): 0-based, -1 for None.
position(state) ==
    IF \E i \in DOMAIN ordered_states : ordered_states[i] = state
    THEN (CHOOSE i \in DOMAIN ordered_states : ordered_states[i] = state) - 1
    ELSE 0 - 1

basic_state_transition_commands(from, to) ==
    CASE from = "Offline" /\ to = "Standby"   -> "command_enterControl"
      [] from = "Standby" /\ to = "Disabled"  -> "command_start"
      [] from = "Disabled" /\ to = "Enabled"  -> "command_enable"
      [] from = "Enabled" /\ to = "Disabled"  -> "command_disable"
      [] from = "Disabled" /\ to = "Standby"  -> "command_standby"
      [] from = "Standby" /\ to = "Offline"   -> "command_exitControl"

\* Mutant of index_range: the downward range is not reversed.
index_range_not_reversed(current_state_position, desired_state_position) ==
    IF desired_state_position > current_state_position
    THEN [k \in 1..(desired_state_position - current_state_position) |->
             current_state_position + k - 1]
    ELSE [k \in 1..(current_state_position - desired_state_position) |->
             desired_state_position + k]

\* (current..desired) going up, (desired + 1..current + 1).rev() going down.
index_range(current_state_position, desired_state_position) ==
    IF desired_state_position > current_state_position
    THEN [k \in 1..(desired_state_position - current_state_position) |->
             current_state_position + k - 1]
    ELSE [k \in 1..(current_state_position - desired_state_position) |->
             current_state_position - k + 1]

Panic == [kind |-> "Panic", cmds |-> <<>>]
OptNone == [kind |-> "None", cmds |-> <<>>]
OptSome(cmds) == [kind |-> "Some", cmds |-> cmds]

\* Mutant of compute_state_transitions: equal states return before the
\* assertions are made.
compute_state_transitions_equal_first(initial_state, desired_state) ==
    IF initial_state = desired_state THEN OptNone
    ELSE IF desired_state = "Fault" \/ desired_state = "Invalid" THEN Panic
    ELSE IF initial_state = "Invalid" THEN Panic
    ELSE LET state_transitions ==
                 IF initial_state = "Fault" THEN <<"command_standby">> ELSE <<>>
             current_state ==
                 IF initial_state = "Fault" THEN "Standby" ELSE initial_state
             current_state_position == position(current_state)
             desired_state_position == position(desired_state)
             offset == IF desired_state_position > current_state_position
                       THEN 1 ELSE 0 - 1
             range == index_range(current_state_position, desired_state_position)
             additional_transitions ==
                 [k \in DOMAIN range |->
                     basic_state_transition_commands(
                         ordered_states[range[k] + 1],
                         ordered_states[range[k] + offset + 1])]
         IN IF current_state_position < 0 \/ desired_state_position < 0
            THEN OptNone
            ELSE OptSome(state_transitions \o additional_transitions)

compute_state_transitions(initial_state, desired_state) ==
    IF desired_state = "Fault" \/ desired_state = "Invalid" THEN Panic
    ELSE IF initial_state = "Invalid" THEN Panic
    ELSE IF initial_state = desired_state THEN OptNone
    ELSE LET state_transitions ==
                 IF initial_state = "Fault" THEN <<"command_standby">> ELSE <<>>
             current_state ==
                 IF initial_state = "Fault" THEN "Standby" ELSE initial_state
             current_state_position == position(current_state)
             desired_state_position == position(desired_state)
             offset == IF desired_state_position > current_state_position
                       THEN 1 ELSE 0 - 1
             range == index_range(current_state_position, desired_state_position)
             additional_transitions ==
                 [k \in DOMAIN range |->
                     basic_state_transition_commands(
                         ordered_states[range[k] + 1],
                         ordered_states[range[k] + offset + 1])]
         IN IF current_state_position < 0 \/ desired_state_position < 0
            THEN OptNone
            ELSE OptSome(state_transitions \o additional_transitions)

StateInit ==
    /\ CscInit
    /\ ReaderIdle(Some(CscIndex))
    /\ RunIdle
    /\ WriterIdle
    /\ \E s \in State : st_state = s
    /\ st_log = <<>>
    /\ ct_call = <<>>
    /\ ct_result = [kind |-> "NotCalled"]
    /\ NewIdle

\* One of the six functions of State is called on a state; it returns
\* Ok(new state) or Err and changes nothing.
CallStateFn ==
    /\ Len(st_log) < MaxCalls
    /\ \E fn \in StateFns :
         LET r == state_fn(fn, st_state) IN
         st_log' = Append(st_log, [fn |-> fn, from |-> st_state, ok |-> r.ok,
                                   to |-> r.state, error |-> r.error])
    /\ UNCHANGED <<st_state, ct_call, ct_result>>
    /\ UNCHANGED <<csc_vars, rd_vars, rc_vars, wr_vars, nw_vars, bg_vars>>

\* BaseCSC::do_start: get_current_state().start()?, then configure()?, then
\* set_summary_state(new_state).  The state is kept only when both
\* returned Ok.
BaseCSC_do_start ==
    /\ Len(st_log) < MaxCalls
    /\ \E configure_ok \in BOOLEAN :
         LET r == start(st_state) IN
         /\ st_log' = Append(st_log, [fn |-> "start", from |-> st_state, ok |-> r.ok,
                                      to |-> r.state, error |-> r.error])
         /\ st_state' = IF r.ok /\ configure_ok THEN r.state ELSE st_state
    /\ UNCHANGED <<ct_call, ct_result>>
    /\ UNCHANGED <<csc_vars, rd_vars, rc_vars, wr_vars, nw_vars, bg_vars>>

ComputeStateTransitions ==
    /\ ct_call = <<>>
    /\ \E initial_state \in State, desired_state \in State :
         /\ ct_call' = <<initial_state, desired_state>>
         /\ ct_result' = compute_state_transitions(initial_state, desired_state)
    /\ UNCHANGED <<st_state, st_log>>
    /\ UNCHANGED <<csc_vars, rd_vars, rc_vars, wr_vars, nw_vars, bg_vars>>

StateNext ==
    \/ CallStateFn
    \/ BaseCSC_do_start
    \/ ComputeStateTransitions

SpecState == StateInit /\ [][StateNext]_vars

\* The lifecycle transition rules: the state `cmd` leads to from `from`,
\* "Rejected" where the command is not allowed.
LifecycleRule(cmd, from) ==
    CASE cmd = "command_enterControl" /\ from = "Offline"        -> "Standby"
      [] cmd = "command_start" /\ from = "Standby"               -> "Disabled"
      [] cmd = "command_enable" /\ from = "Disabled"             -> "Enabled"
      [] cmd = "command_disable" /\ from = "Enabled"             -> "Disabled"
      [] cmd = "command_standby" /\ from \in {"Disabled", "Fault"} -> "Standby"
      [] cmd = "command_exitControl" /\ from = "Standby"         -> "Offline"
      [] OTHER                                                  -> "Rejected"

RECURSIVE ApplyCommands(_, _)
ApplyCommands(cmds, from) ==
    IF cmds = <<>> THEN from
    ELSE ApplyCommands(Tail(cmds), LifecycleRule(Head(cmds), from))

\* C13: for a in {Offline, Standby, Disabled, Enabled, Fault} and b in
\* {Offline, Standby, Disabled, Enabled}, a # b, the commands
\* compute_state_transitions(a, b) returns, applied in order under the
\* lifecycle rules, lead from a to b; for a = b it returns no commands.
C13_ComputeStateTransitions ==
    ct_call # <<>> =>
        LET a == ct_call[1]
            b == ct_call[2]
        IN (a \in {"Offline", "Standby", "Disabled", "Enabled", "Fault"}
            /\ b \in {"Offline", "Standby", "Disabled", "Enabled"}) =>
               IF a = b
               THEN ct_result.kind = "None" /\ ct_result.cmds = <<>>
               ELSE /\ ct_result.kind = "Some"
                    /\ ct_result.cmds # <<>>
                    /\ ApplyCommands(ct_result.cmds, a) = b

C13_Witness ==
    /\ ct_call = <<"Fault", "Offline">>
    /\ ct_result.kind = "Some"
    /\ ct_result.cmds = <<"command_standby", "command_exitControl">>

\* The transition each pure function is to make: <<source states, target>>.
AllowedFrom(fn) ==
    CASE fn = "start"         -> {"Standby"}
      [] fn = "enable"        -> {"Disabled"}
      [] fn = "disable"       -> {"Enabled"}
      [] fn = "standby"       -> {"Disabled", "Fault"}
      [] fn = "enter_control" -> {"Offline"}
      [] fn = "exit_control"  -> {"Standby"}

TargetOf(fn) ==
    CASE fn = "start"         -> "Disabled"
      [] fn = "enable"        -> "Enabled"
      [] fn = "disable"       -> "Disabled"
      [] fn = "standby"       -> "Standby"
      [] fn = "enter_control" -> "Standby"
      [] fn = "exit_control"  -> "Offline"

\* C16: each of the six pure transition functions of State succeeds exactly
\* on its allowed transition and returns an error from every other state:
\* start Standby->Disabled, enable Disabled->Enabled, disable
\* Enabled->Disabled, standby Disabled|Fault->Standby, enter_control
\* Offline->Standby, exit_control Standby->Offline.
C16_PureTransitions ==
    \A k \in DOMAIN st_log :
        LET e == st_log[k] IN
        IF e.from \in AllowedFrom(e.fn)
        THEN e.ok /\ e.to = TargetOf(e.fn)
        ELSE ~e.ok

\* C30: compute_state_transitions panics, with no command computed, when
\* the desired state is Fault or Invalid (whatever the initial state) and
\* when the initial state is Invalid (whatever the desired state); it
\* panics on no other input.
C30_InvalidInputPanics ==
    ct_call # <<>> =>
        LET initial_state == ct_call[1]
            desired_state == ct_call[2]
        IN IF desired_state \in {"Fault", "Invalid"} \/ initial_state = "Invalid"
           THEN ct_result.kind = "Panic" /\ ct_result.cmds = <<>>
           ELSE ct_result.kind \in {"None", "Some"}

C30_Witness ==
    /\ ct_call = <<"Fault", "Fault">>
    /\ ct_result = Panic

====
